---- MODULE Spec2Model ----
(***************************************************************************)
(* A model of the YAML scanner of src/src/scanner.rs.                      *)
(*                                                                         *)
(* Characters are one-character strings, the character source `rdr` is the *)
(* sequence of characters not yet read, strings built by the scanner are   *)
(* sequences of characters.  The scanner's fields are the variables of the *)
(* same names.  The private methods are operators on a record holding the  *)
(* fields (Self), together with the result of the method:                  *)
(*   ret    <<>> for Ok(..), <<e>> for Err(e)                              *)
(*   panic  TRUE once a Rust panic (unwrap of None, failed assert!,        *)
(*          usize underflow) was hit                                       *)
(*   tok, str, num   the value of an Ok(Token), Ok(String), Ok(u32)        *)
(*   code   the value of an Ok(char), as its code point                    *)
(*   l      the local variables of the scanning method that is running     *)
(***************************************************************************)
EXTENDS Integers, Sequences, FiniteSets, TLC

VARIABLES
    rdr,                        \* Scanner::rdr, the characters still to be read
    mark,                       \* Scanner::mark
    tokens,                     \* Scanner::tokens
    buffer,                     \* Scanner::buffer
    error,                      \* Scanner::error, <<>> is None, <<e>> is Some(e)
    stream_start_produced,
    stream_end_produced,
    adjacent_value_allowed_at,
    simple_key_allowed,
    simple_keys,
    indent,
    indents,
    flow_level,
    tokens_parsed,
    token_available,
    leading_whitespace,
    pc,                         \* "idle", or the interface of the pull that is fetching
    result,                     \* what the last pull returned, and through which interface
    out,                        \* the tokens handed to the caller so far
    first_error,                \* the error of the first pull that failed, <<>> if none did
    input,                      \* the characters the scanner was created on
    twin                        \* <<>>, or <<t>>: a second scanner created on the same
                                \* characters, pulled whenever a pull of the first returns

vars == <<rdr, mark, tokens, buffer, error, stream_start_produced,
          stream_end_produced, adjacent_value_allowed_at, simple_key_allowed,
          simple_keys, indent, indents, flow_level, tokens_parsed,
          token_available, leading_whitespace, pc, result, out, first_error,
          input, twin>>

(***************************************************************************)
(* Characters                                                              *)
(***************************************************************************)
NUL == "NUL"

\* the grave accent, which a TLA+ string cannot hold
BACKTICK == "BACKTICK"

Digits == {"0", "1", "2", "3", "4", "5", "6", "7", "8", "9"}

LowerHex == {"a", "b", "c", "d", "e", "f"}

UpperHex == {"A", "B", "C", "D", "E", "F"}

Lower == LowerHex \cup {"g", "h", "i", "j", "k", "l", "m", "n", "o", "p", "q",
                        "r", "s", "t", "u", "v", "w", "x", "y", "z"}

Upper == UpperHex \cup {"G", "H", "I", "J", "K", "L", "M", "N", "O", "P", "Q",
                        "R", "S", "T", "U", "V", "W", "X", "Y", "Z"}

is_z(c) == c = NUL

is_break(c) == c = "\n" \/ c = "\r"

is_breakz(c) == is_break(c) \/ is_z(c)

is_blank(c) == c = " " \/ c = "\t"

is_blankz(c) == is_blank(c) \/ is_breakz(c)

is_digit(c) == c \in Digits

is_alpha(c) == c \in Digits \cup Lower \cup Upper \cup {"_", "-"}

is_hex(c) == c \in Digits \cup LowerHex \cup UpperHex

is_flow(c) == c \in {",", "[", "]", "{", "}"}

(***************************************************************************)
(* Markers, errors, tokens, simple keys                                    *)
(***************************************************************************)
Marker(index, line, col) == [index |-> index, line |-> line, col |-> col]

ScanError(loc, info) == [mark |-> loc, info |-> info]

\* Token(mark, type); s1, s2 are the strings and n1, n2 the numbers of the
\* token types that carry some, style the style of a Scalar.
Token(m, tt) == [mark |-> m, tt |-> tt, style |-> "", s1 |-> <<>>, s2 |-> <<>>,
                 n1 |-> 0, n2 |-> 0]

NoToken == Token(Marker(0, 0, 0), "NoToken")

ScalarToken(m, style, string) == [Token(m, "Scalar") EXCEPT !.style = style, !.s1 = string]

SimpleKey(m) == [possible |-> FALSE, required |-> FALSE, token_number |-> 0, mark |-> m]

(***************************************************************************)
(* The scanner as a record, and the results of its methods                 *)
(***************************************************************************)
Self == [rdr |-> rdr, mark |-> mark, tokens |-> tokens, buffer |-> buffer,
         error |-> error,
         stream_start_produced |-> stream_start_produced,
         stream_end_produced |-> stream_end_produced,
         adjacent_value_allowed_at |-> adjacent_value_allowed_at,
         simple_key_allowed |-> simple_key_allowed,
         simple_keys |-> simple_keys, indent |-> indent, indents |-> indents,
         flow_level |-> flow_level, tokens_parsed |-> tokens_parsed,
         token_available |-> token_available,
         leading_whitespace |-> leading_whitespace,
         ret |-> <<>>, panic |-> FALSE, tok |-> NoToken, str |-> <<>>, num |-> 0,
         code |-> [hi |-> 0, lo |-> 0], l |-> <<>>, done |-> FALSE,
         peak |-> Len(buffer)]

Err(self, loc, info) == [self EXCEPT !.ret = <<ScanError(loc, info)>>]

Panic(self) == [self EXCEPT !.panic = TRUE]

Failed(self) == self.panic \/ self.ret # <<>>

\* The `?` of the code: go on with K unless s failed (s is evaluated once)
Then(s, K(_)) == CHOOSE r \in {IF Failed(x) THEN x ELSE K(x) : x \in {s}} : TRUE

\* A `let` of the code: K of the value v (v is evaluated once)
With(v, K(_)) == CHOOSE r \in {K(x) : x \in {v}} : TRUE

Last(seq) == seq[Len(seq)]

Front(seq) == SubSeq(seq, 1, Len(seq) - 1)

(***************************************************************************)
(* Lookahead buffer and position                                           *)
(***************************************************************************)
\* rdr.next().unwrap_or('\0'), n times; self.peak is the largest length that
\* the buffer has had since the call of the method that is running
RECURSIVE Pull(_, _)
Pull(self, n) ==
    IF n = 0 THEN self
    ELSE With(IF self.rdr = <<>>
              THEN [self EXCEPT !.buffer = Append(@, NUL)]
              ELSE [self EXCEPT !.buffer = Append(@, Head(self.rdr)), !.rdr = Tail(@)],
              LAMBDA s1 :
              Pull([s1 EXCEPT !.peak = IF Len(s1.buffer) > @ THEN Len(s1.buffer) ELSE @],
                   n - 1))

lookahead(self, count) ==
    IF Len(self.buffer) >= count THEN self
    ELSE Pull(self, count - Len(self.buffer))

\* self.buffer.pop_front().unwrap() panics on an empty buffer
skip(self) ==
    LET c == Head(self.buffer)
    IN  IF self.buffer = <<>> THEN Panic(self)
        ELSE IF c = "\n"
        THEN [self EXCEPT !.buffer = Tail(@),
                          !.mark = Marker(@.index + 1, @.line + 1, 0),
                          !.leading_whitespace = TRUE]
        ELSE [self EXCEPT !.buffer = Tail(@),
                          !.mark = Marker(@.index + 1, @.line, @.col + 1),
                          !.leading_whitespace = @ /\ is_blank(c)]

skip_line(self) ==
    IF self.buffer[1] = "\r" /\ self.buffer[2] = "\n" THEN skip(skip(self))
    ELSE IF is_break(self.buffer[1]) THEN skip(self)
    ELSE self

ch(self) == self.buffer[1]

look_ch(self) == ch(lookahead(self, 1))

ch_is(self, c) == self.buffer[1] = c

read_break_lf_only(self) ==
    IF self.buffer[1] = "\r" /\ self.buffer[2] = "\n" THEN skip(skip(self))
    ELSE IF self.buffer[1] = "\n" THEN skip(self)
    ELSE Panic(self)

\* The break read is always pushed as one "\n": the caller appends it.
read_break(self) ==
    IF self.buffer[1] = "\r" /\ self.buffer[2] = "\n" THEN skip(skip(self))
    ELSE IF self.buffer[1] = "\r" \/ self.buffer[1] = "\n" THEN skip(self)
    ELSE Panic(self)

InsertAt(seq, pos, x) == SubSeq(seq, 1, pos) \o <<x>> \o SubSeq(seq, pos + 1, Len(seq))

insert_token_front(self, pos, tok) == [self EXCEPT !.tokens = <<tok>> \o @]

\* pos is a usize: a negative pos is the underflow of the caller's subtraction
insert_token(self, pos, tok) ==
    IF pos < 0 \/ pos > Len(self.tokens) THEN Panic(self)
    ELSE [self EXCEPT !.tokens = InsertAt(@, pos, tok)]

push_back(self, tok) == [self EXCEPT !.tokens = Append(@, tok)]

allow_simple_key(self) == [self EXCEPT !.simple_key_allowed = TRUE]

disallow_simple_key(self) == [self EXCEPT !.simple_key_allowed = FALSE]

(***************************************************************************)
(* Simple keys and indentation                                             *)
(***************************************************************************)
remove_simple_key(self) ==
    IF self.simple_keys = <<>> THEN Panic(self)
    ELSE LET last == Last(self.simple_keys)
         IN  IF last.possible /\ last.required
             THEN Err(self, self.mark, "simple key expected")
             ELSE [self EXCEPT !.simple_keys[Len(self.simple_keys)].possible = FALSE]

save_simple_key_never(self) == self

save_simple_key_in_block(self) ==
    IF self.simple_key_allowed
    THEN Then(remove_simple_key(self), LAMBDA s1 :
         [s1 EXCEPT !.simple_keys =
              Append(Front(@),
                     [possible |-> TRUE,
                      required |-> self.flow_level = 0 /\ self.indent = self.mark.col,
                      token_number |-> self.tokens_parsed + Len(self.tokens),
                      mark |-> self.mark])])
    ELSE self

save_simple_key_relative(self) ==
    IF self.simple_key_allowed
    THEN Then(remove_simple_key(self), LAMBDA s1 :
         [s1 EXCEPT !.simple_keys =
              Append(Front(@),
                     [possible |-> TRUE,
                      required |-> self.flow_level > 0 /\ self.indent = self.mark.col,
                      token_number |-> Len(self.tokens),
                      mark |-> self.mark])])
    ELSE self

save_simple_key(self) ==
    IF self.simple_key_allowed
    THEN Then(remove_simple_key(self), LAMBDA s1 :
         [s1 EXCEPT !.simple_keys =
              Append(Front(@),
                     [possible |-> TRUE,
                      required |-> self.flow_level > 0 /\ self.indent = self.mark.col,
                      token_number |-> self.tokens_parsed + Len(self.tokens),
                      mark |-> self.mark])])
    ELSE self

roll_indent_untold(self, col, number, tt, m) ==
    IF self.flow_level > 0 THEN self
    ELSE IF self.indent < col
         THEN [self EXCEPT !.indents = Append(@, self.indent), !.indent = col]
         ELSE self

roll_indent_unordered(self, col, number, tt, m) ==
    IF self.flow_level > 0 THEN self
    ELSE With([self EXCEPT !.indents = Append(@, self.indent), !.indent = col],
              LAMBDA s1 :
              IF number # <<>>
              THEN insert_token(s1, number[1] - s1.tokens_parsed, Token(m, tt))
              ELSE push_back(s1, Token(m, tt)))

\* number is the Option<usize>: <<>> is None, <<n>> is Some(n)
roll_indent(self, col, number, tt, m) ==
    IF self.flow_level > 0 THEN self
    ELSE IF self.indent < col
         THEN With([self EXCEPT !.indents = Append(@, self.indent), !.indent = col],
                   LAMBDA s1 :
                   IF number # <<>>
                   THEN insert_token(s1, number[1] - s1.tokens_parsed, Token(m, tt))
                   ELSE push_back(s1, Token(m, tt)))
         ELSE self

RECURSIVE unroll_indent(_, _)
unroll_indent_silent(self, col) ==
    IF self.flow_level > 0 \/ self.indent <= col THEN self
    ELSE [self EXCEPT !.indent = -1, !.indents = <<>>]

unroll_indent(self, col) ==
    IF self.flow_level > 0 THEN self
    ELSE IF self.indent > col
         THEN With(push_back(self, Token(self.mark, "BlockEnd")), LAMBDA s1 :
                   IF s1.indents = <<>> THEN Panic(s1)
                   ELSE unroll_indent([s1 EXCEPT !.indent = Last(s1.indents),
                                                 !.indents = Front(@)], col))
         ELSE self

is_within_block(self) == self.indents # <<>> /\ self.flow_level = 0

is_stale_wide(self, sk) ==
    /\ sk.possible
    /\ (sk.mark.line < self.mark.line \/ sk.mark.index + 1025 < self.mark.index)

is_stale_beyond_window(self, sk) ==
    sk.possible /\ sk.mark.index + 1024 < self.mark.index

\* the condition under which the loop of stale_simple_keys drops the key sk
is_stale(self, sk) ==
    /\ sk.possible
    /\ (sk.mark.line < self.mark.line \/ sk.mark.index + 1024 < self.mark.index)

\* for sk in &mut self.simple_keys: the loop drops the stale keys in order,
\* and returns the error at the first stale key that is required
stale_simple_keys(self) ==
    With({i \in 1..Len(self.simple_keys) :
              is_stale(self, self.simple_keys[i]) /\ self.simple_keys[i].required},
         LAMBDA required :
    With(IF required = {} THEN Len(self.simple_keys) + 1
         ELSE CHOOSE i \in required : \A j \in required : i <= j, LAMBDA stop :
    With([self EXCEPT !.simple_keys =
              [i \in 1..Len(@) |->
                  IF i < stop /\ is_stale(self, @[i])
                  THEN [@[i] EXCEPT !.possible = FALSE]
                  ELSE @[i]]], LAMBDA s1 :
    IF required = {} THEN s1 ELSE Err(s1, self.mark, "simple key expect ':'"))))

(***************************************************************************)
(* Whitespace and comments                                                 *)
(***************************************************************************)
\* while !is_breakz(self.ch()) { self.skip(); self.lookahead(1); }
RECURSIVE skip_to_breakz(_)
skip_to_breakz(self) ==
    IF is_breakz(ch(self)) THEN self
    ELSE With(lookahead(skip(self), 1), skip_to_breakz)

\* while is_blank(self.ch()) { self.skip(); self.lookahead(1); }
RECURSIVE skip_blanks(_)
skip_blanks(self) ==
    IF is_blank(ch(self)) THEN With(lookahead(skip(self), 1), skip_blanks)
    ELSE self

RECURSIVE skip_to_next_token(_)
skip_to_next_token_strict(self) ==
    With(lookahead(self, 1), LAMBDA s1 :
    CASE ch(s1) = " " -> skip_to_next_token(skip(s1))
      [] ch(s1) = "\t" /\ s1.flow_level = 0 /\ s1.leading_whitespace ->
            Err(s1, s1.mark, "tabs disallowed within this context (block indentation)")
      [] ch(s1) = "\t" /\ ~(s1.flow_level = 0 /\ s1.leading_whitespace) ->
            skip_to_next_token(skip(s1))
      [] ch(s1) = "\n" \/ ch(s1) = "\r" ->
            With(skip_line(lookahead(s1, 2)), LAMBDA s2 :
                 skip_to_next_token(IF s2.flow_level = 0 THEN allow_simple_key(s2)
                                    ELSE s2))
      [] ch(s1) = "#" -> skip_to_next_token(skip_to_breakz(s1))
      [] OTHER -> s1)

skip_to_next_token(self) ==
    With(lookahead(self, 1), LAMBDA s1 :
    CASE ch(s1) = " " -> skip_to_next_token(skip(s1))
      [] ch(s1) = "\t" /\ is_within_block(s1) /\ s1.leading_whitespace
                       /\ s1.mark.col < s1.indent ->
            Err(s1, s1.mark, "tabs disallowed within this context (block indentation)")
      [] ch(s1) = "\t" /\ ~(is_within_block(s1) /\ s1.leading_whitespace
                            /\ s1.mark.col < s1.indent) ->
            skip_to_next_token(skip(s1))
      [] ch(s1) = "\n" \/ ch(s1) = "\r" ->
            With(skip_line(lookahead(s1, 2)), LAMBDA s2 :
                 skip_to_next_token(IF s2.flow_level = 0 THEN allow_simple_key(s2)
                                    ELSE s2))
      [] ch(s1) = "#" -> skip_to_next_token(skip_to_breakz(s1))
      [] OTHER -> s1)

(***************************************************************************)
(* Stream start and end, flow collections, block entries, documents        *)
(***************************************************************************)
fetch_stream_start(self) ==
    [self EXCEPT !.indent = -1,
                 !.stream_start_produced = TRUE,
                 !.simple_key_allowed = TRUE,
                 !.tokens = Append(@, Token(self.mark, "StreamStart")),
                 !.simple_keys = Append(@, SimpleKey(Marker(0, 0, 0)))]

fetch_stream_end_unqueued(self) ==
    Then(unroll_indent(IF self.mark.col # 0
                       THEN [self EXCEPT !.mark = Marker(@.index, @.line + 1, 0)]
                       ELSE self, -1), LAMBDA s2 :
    Then(remove_simple_key(s2), LAMBDA s3 : disallow_simple_key(s3)))

fetch_stream_end(self) ==
    Then(unroll_indent(IF self.mark.col # 0
                       THEN [self EXCEPT !.mark = Marker(@.index, @.line + 1, 0)]
                       ELSE self, -1), LAMBDA s2 :
    Then(remove_simple_key(s2), LAMBDA s3 :
    push_back(disallow_simple_key(s3), Token(s3.mark, "StreamEnd"))))

MaxFlowLevel == 255

increase_flow_level_wrapping(self) ==
    [self EXCEPT !.simple_keys = Append(@, SimpleKey(Marker(0, 0, 0))),
                 !.flow_level = (@ + 1) % (MaxFlowLevel + 1)]

increase_flow_level(self) ==
    With([self EXCEPT !.simple_keys = Append(@, SimpleKey(Marker(0, 0, 0)))], LAMBDA s1 :
    IF s1.flow_level + 1 > MaxFlowLevel
    THEN Err(s1, s1.mark, "recursion limit exceeded")
    ELSE [s1 EXCEPT !.flow_level = @ + 1])

decrease_flow_level_popping(self) ==
    IF self.simple_keys = <<>> THEN Panic(self)
    ELSE [self EXCEPT !.flow_level = IF @ > 0 THEN @ - 1 ELSE 0,
                      !.simple_keys = Front(@)]

decrease_flow_level(self) ==
    IF self.flow_level > 0
    THEN IF self.simple_keys = <<>> THEN Panic(self)
         ELSE [self EXCEPT !.flow_level = @ - 1, !.simple_keys = Front(@)]
    ELSE self

fetch_flow_collection_start(self, tt) ==
    Then(save_simple_key(self), LAMBDA s1 :
    Then(increase_flow_level(s1), LAMBDA s2 :
    push_back(skip(allow_simple_key(s2)), Token(s2.mark, tt))))

fetch_flow_collection_end(self, tt) ==
    Then(remove_simple_key(self), LAMBDA s1 :
    Then(decrease_flow_level(s1), LAMBDA s2 :
    push_back(skip(disallow_simple_key(s2)), Token(s2.mark, tt))))

fetch_flow_entry(self) ==
    Then(remove_simple_key(self), LAMBDA s1 :
    push_back(skip(allow_simple_key(s1)), Token(s1.mark, "FlowEntry")))

fetch_block_entry_any_level(self) ==
    IF ~self.simple_key_allowed
    THEN Err(self, self.mark, "block sequence entries are not allowed in this context")
    ELSE Then(roll_indent(self, self.mark.col, <<>>, "BlockSequenceStart", self.mark),
              LAMBDA s1 :
         Then(remove_simple_key(s1), LAMBDA s2 :
         push_back(skip(allow_simple_key(s2)), Token(s2.mark, "BlockEntry"))))

fetch_block_entry_restart(self) ==
    IF self.flow_level = 0
    THEN IF ~self.simple_key_allowed
         THEN Err(self, self.mark, "block sequence entries are not allowed in this context")
         ELSE Then(push_back(roll_indent_untold(self, self.mark.col, <<>>,
                                                "BlockSequenceStart", self.mark),
                             Token(self.mark, "BlockSequenceStart")),
                   LAMBDA s1 :
              Then(remove_simple_key(s1), LAMBDA s2 :
              push_back(skip(allow_simple_key(s2)), Token(s2.mark, "BlockEntry"))))
    ELSE Err(self, self.mark, "\"-\" is only valid inside a block")

fetch_block_entry(self) ==
    IF self.flow_level = 0
    THEN IF ~self.simple_key_allowed
         THEN Err(self, self.mark, "block sequence entries are not allowed in this context")
         ELSE Then(roll_indent(self, self.mark.col, <<>>, "BlockSequenceStart", self.mark),
                   LAMBDA s1 :
              Then(remove_simple_key(s1), LAMBDA s2 :
              push_back(skip(allow_simple_key(s2)), Token(s2.mark, "BlockEntry"))))
    ELSE Err(self, self.mark, "\"-\" is only valid inside a block")

fetch_document_indicator(self, tt) ==
    Then(unroll_indent(self, -1), LAMBDA s1 :
    Then(remove_simple_key(s1), LAMBDA s2 :
    push_back(skip(skip(skip(disallow_simple_key(s2)))), Token(s2.mark, tt))))

(***************************************************************************)
(* Keys and values                                                         *)
(***************************************************************************)
fetch_key_allowing(self) ==
    IF self.flow_level = 0 /\ ~self.simple_key_allowed
    THEN Err(self, self.mark, "mapping keys are not allowed in this context")
    ELSE Then(remove_simple_key(IF self.flow_level = 0
                                THEN roll_indent(self, self.mark.col, <<>>,
                                                 "BlockMappingStart", self.mark)
                                ELSE self), LAMBDA s1 :
         push_back(skip(allow_simple_key(s1)), Token(self.mark, "Key")))

fetch_key(self) ==
    Then(IF self.flow_level = 0
         THEN IF ~self.simple_key_allowed
              THEN Err(self, self.mark, "mapping keys are not allowed in this context")
              ELSE roll_indent(self, self.mark.col, <<>>, "BlockMappingStart", self.mark)
         ELSE self, LAMBDA s1 :
    Then(remove_simple_key(s1), LAMBDA s2 :
    push_back(skip(IF s2.flow_level = 0 THEN allow_simple_key(s2)
                   ELSE disallow_simple_key(s2)),
              Token(self.mark, "Key"))))

fetch_value(self) ==
    IF self.simple_keys = <<>> THEN Panic(self)
    ELSE
    With(Last(self.simple_keys), LAMBDA sk :
    Then(IF sk.possible
         THEN Then(insert_token(self, sk.token_number - self.tokens_parsed,
                                Token(sk.mark, "Key")), LAMBDA s1 :
              Then(roll_indent(s1, sk.mark.col, <<sk.token_number>>,
                               "BlockMappingStart", self.mark), LAMBDA s2 :
              disallow_simple_key(
                  [s2 EXCEPT !.simple_keys[Len(s2.simple_keys)].possible = FALSE])))
         ELSE IF self.flow_level = 0
              THEN IF ~self.simple_key_allowed
                   THEN Err(self, self.mark,
                            "mapping values are not allowed in this context")
                   ELSE allow_simple_key(
                            roll_indent(self, self.mark.col, <<>>,
                                        "BlockMappingStart", self.mark))
              ELSE disallow_simple_key(self), LAMBDA s3 :
    push_back(skip(s3), Token(self.mark, "Value"))))

(***************************************************************************)
(* Plain scalars.  The locals of scan_plain_scalar are the record self.l.  *)
(***************************************************************************)
\* buffer[0..2] is "---" or "...", followed by a blank, a break or the end
at_document_indicator(self) ==
    /\ self.mark.col = 0
    /\ \/ self.buffer[1] = "-" /\ self.buffer[2] = "-" /\ self.buffer[3] = "-"
       \/ self.buffer[1] = "." /\ self.buffer[2] = "." /\ self.buffer[3] = "."
    /\ is_blankz(self.buffer[4])

plain_join_one_space(l) ==
    IF l.leading_blanks
    THEN IF l.leading_break = <<>>
         THEN [l EXCEPT !.string = @ \o l.leading_break \o l.trailing_breaks,
                        !.trailing_breaks = <<>>, !.leading_break = <<>>,
                        !.leading_blanks = FALSE]
         ELSE IF l.trailing_breaks = <<>>
              THEN [l EXCEPT !.string = Append(@, " "), !.leading_break = <<>>,
                             !.leading_blanks = FALSE]
              ELSE [l EXCEPT !.string = @ \o l.trailing_breaks,
                             !.trailing_breaks = <<>>, !.leading_break = <<>>,
                             !.leading_blanks = FALSE]
    ELSE IF l.whitespaces # <<>>
         THEN [l EXCEPT !.string = Append(@, " "), !.whitespaces = <<>>]
         ELSE l

\* The joining of whitespace and folded breaks in front of a character
\* (scan_plain_scalar, `if leading_blanks || !whitespaces.is_empty()`).
plain_join(l) ==
    IF l.leading_blanks
    THEN IF l.leading_break = <<>>
         THEN [l EXCEPT !.string = @ \o l.leading_break \o l.trailing_breaks,
                        !.trailing_breaks = <<>>, !.leading_break = <<>>,
                        !.leading_blanks = FALSE]
         ELSE IF l.trailing_breaks = <<>>
              THEN [l EXCEPT !.string = Append(@, " "), !.leading_break = <<>>,
                             !.leading_blanks = FALSE]
              ELSE [l EXCEPT !.string = @ \o l.trailing_breaks,
                             !.trailing_breaks = <<>>, !.leading_break = <<>>,
                             !.leading_blanks = FALSE]
    ELSE IF l.whitespaces # <<>>
         THEN [l EXCEPT !.string = @ \o l.whitespaces, !.whitespaces = <<>>]
         ELSE l

\* while !is_blankz(self.ch()) { ... }
RECURSIVE plain_chars(_)
plain_chars(self) ==
    IF is_blankz(ch(self)) THEN self
    ELSE IF ch(self) = ":" /\ (is_blankz(self.buffer[2])
                               \/ (self.flow_level > 0 /\ is_flow(self.buffer[2])))
         THEN self
    ELSE IF is_flow(ch(self)) /\ self.flow_level > 0 THEN self
    ELSE With(lookahead(skip(
                  [self EXCEPT !.l = [plain_join(self.l)
                                      EXCEPT !.string = Append(@, ch(self))]]), 2),
              plain_chars)

\* while is_blank(self.look_ch()) || is_break(self.ch()) { ... }
RECURSIVE plain_blanks(_)
plain_blanks(self) ==
    With(lookahead(self, 1), LAMBDA s1 :
    IF is_blank(ch(s1))
    THEN IF s1.l.leading_blanks /\ s1.mark.col < s1.l.indent /\ ch(s1) = "\t"
         THEN Err(s1, s1.l.start_mark, "while scanning a plain scalar, found a tab")
         ELSE plain_blanks(skip(
                  IF ~s1.l.leading_blanks
                  THEN [s1 EXCEPT !.l.whitespaces = Append(@, ch(s1))]
                  ELSE s1))
    ELSE IF is_break(ch(s1))
    THEN Then(IF s1.l.leading_blanks
              THEN [read_break(lookahead(s1, 2))
                    EXCEPT !.l.trailing_breaks = Append(@, "\n")]
              ELSE [read_break(lookahead(s1, 2))
                    EXCEPT !.l.whitespaces = <<>>,
                           !.l.leading_break = Append(@, "\n"),
                           !.l.leading_blanks = TRUE],
              LAMBDA s3 : plain_blanks(s3))
    ELSE s1)

\* the outer loop of scan_plain_scalar
RECURSIVE plain_loop(_)
plain_loop(self) ==
    With(lookahead(self, 4), LAMBDA s1 :
    IF at_document_indicator(s1) THEN s1
    ELSE IF ch(s1) = "#" THEN s1
    ELSE With(plain_chars(s1), LAMBDA s2 :
         IF ~(is_blank(ch(s2)) \/ is_break(ch(s2))) THEN s2
         ELSE Then(plain_blanks(s2), LAMBDA s3 :
              IF s3.flow_level = 0 /\ s3.mark.col < s3.l.indent THEN s3
              ELSE plain_loop(s3))))

scan_plain_scalar(self) ==
    Then(plain_loop([self EXCEPT !.l = [indent |-> self.indent + 1,
                                        start_mark |-> self.mark,
                                        string |-> <<>>, leading_break |-> <<>>,
                                        trailing_breaks |-> <<>>, whitespaces |-> <<>>,
                                        leading_blanks |-> TRUE]]), LAMBDA s1 :
    [(IF s1.l.leading_blanks THEN allow_simple_key(s1) ELSE s1)
     EXCEPT !.tok = ScalarToken(s1.l.start_mark, "Plain", s1.l.string)])

fetch_plain_scalar(self) ==
    Then(save_simple_key(self), LAMBDA s1 :
    Then(scan_plain_scalar(disallow_simple_key(s1)), LAMBDA s2 :
    push_back(s2, s2.tok)))

(***************************************************************************)
(* Numbers and code points                                                 *)
(***************************************************************************)
DigitSeq == <<"0", "1", "2", "3", "4", "5", "6", "7", "8", "9">>

LowerHexSeq == <<"a", "b", "c", "d", "e", "f">>

UpperHexSeq == <<"A", "B", "C", "D", "E", "F">>

IndexOf(seq, c) == CHOOSE i \in 1..Len(seq) : seq[i] = c

digit_value_from_one(c) == IndexOf(DigitSeq, c)

\* (c as u32) - ('0' as u32) for an ascii digit
digit_value(c) == IndexOf(DigitSeq, c) - 1

as_hex(c) ==
    IF c \in Digits THEN IndexOf(DigitSeq, c) - 1
    ELSE IF c \in LowerHex THEN IndexOf(LowerHexSeq, c) + 9
    ELSE IndexOf(UpperHexSeq, c) + 9

\* A u32 is the pair of its 16-bit halves: hi * 65536 + lo
u32(hi, lo) == [hi |-> hi, lo |-> lo]

\* (value << bits) + d in u32 arithmetic, for d < 2^bits and bits <= 16:
\* the bits shifted out at the top are lost
shl_add(value, bits, d) ==
    LET p == 2 ^ bits
    IN  u32((value.hi * p + (value.lo * p) \div 65536) % 65536,
            ((value.lo * p) % 65536) + d)

\* The printable ascii characters, from code 32 to code 126
Ascii == <<" ", "!", "\"", "#", "$", "%", "&", "'", "(", ")", "*", "+", ",", "-",
           ".", "/", "0", "1", "2", "3", "4", "5", "6", "7", "8", "9", ":", ";",
           "<", "=", ">", "?", "@", "A", "B", "C", "D", "E", "F", "G", "H", "I",
           "J", "K", "L", "M", "N", "O", "P", "Q", "R", "S", "T", "U", "V", "W",
           "X", "Y", "Z", "[", "\\", "]", "^", "_", BACKTICK, "a", "b", "c", "d", "e",
           "f", "g", "h", "i", "j", "k", "l", "m", "n", "o", "p", "q", "r", "s",
           "t", "u", "v", "w", "x", "y", "z", "{", "|", "}", "~">>

is_scalar_value_any(value) == value.hi >= 0

\* char::from_u32(code) is Some(..) exactly for the Unicode scalar values
is_scalar_value(value) ==
    \/ value.hi = 0 /\ (value.lo < 55296 \/ value.lo > 57343)
    \/ value.hi >= 1 /\ value.hi <= 16

\* The character of a code point: the characters the model reads from its
\* inputs are named by themselves, the others by their code point.
char_of(value) ==
    LET code == value.hi * 65536 + value.lo
    IN
    IF code >= 32 /\ code <= 126 THEN Ascii[code - 31]
    ELSE IF code = 0 THEN NUL
    ELSE IF code = 9 THEN "\t"
    ELSE IF code = 10 THEN "\n"
    ELSE IF code = 13 THEN "\r"
    ELSE "U+" \o ToString(code)

(***************************************************************************)
(* Directives                                                              *)
(***************************************************************************)
\* while is_alpha(self.ch()) { string.push(self.ch()); self.skip(); self.lookahead(1); }
RECURSIVE take_alpha(_)
take_alpha(self) ==
    IF is_alpha(ch(self))
    THEN With(lookahead(skip([self EXCEPT !.str = Append(@, ch(self))]), 1), take_alpha)
    ELSE self

scan_directive_name(self) ==
    With(take_alpha(lookahead([self EXCEPT !.str = <<>>], 1)), LAMBDA s1 :
    IF s1.str = <<>>
    THEN Err(s1, self.mark,
             "while scanning a directive, could not find expected directive name")
    ELSE IF ~is_blankz(ch(s1))
    THEN Err(s1, self.mark,
             "while scanning a directive, found unexpected non-alphabetical character")
    ELSE s1)

\* the loop of scan_version_directive_number; self.num is val
RECURSIVE version_digits(_, _, _)
version_digits(self, m, length) ==
    IF is_digit(ch(self))
    THEN IF length + 1 > 9
         THEN Err(self, m,
                  "while scanning a YAML directive, found extremely long version number")
         ELSE With(lookahead(skip([self EXCEPT !.num = @ * 10 + digit_value(ch(self))]), 1),
                   LAMBDA s1 : version_digits(s1, m, length + 1))
    ELSE IF length = 0
    THEN Err(self, m,
             "while scanning a YAML directive, did not find expected version number")
    ELSE self

scan_version_directive_number(self, m) ==
    version_digits(lookahead([self EXCEPT !.num = 0], 1), m, 0)

scan_version_directive_value(self, m) ==
    Then(scan_version_directive_number(skip_blanks(lookahead(self, 1)), m), LAMBDA s2 :
    IF ch(s2) # "."
    THEN Err(s2, m,
             "while scanning a YAML directive, did not find expected digit or '.' character")
    ELSE Then(scan_version_directive_number(skip(s2), m), LAMBDA s3 :
         [s3 EXCEPT !.tok = [Token(m, "VersionDirective")
                             EXCEPT !.n1 = s2.num, !.n2 = s3.num]]))

\* while is_alpha(self.look_ch()) { string.push(self.ch_skip()); }
RECURSIVE take_look_alpha(_)
take_look_alpha(self) ==
    With(lookahead(self, 1), LAMBDA s1 :
    IF is_alpha(ch(s1))
    THEN take_look_alpha(skip([s1 EXCEPT !.str = Append(@, ch(s1))]))
    ELSE s1)

scan_tag_handle(self, directive, m) ==
    With(lookahead(self, 1), LAMBDA s0 :
    IF ch(s0) # "!"
    THEN Err(s0, m, "while scanning a tag, did not find expected '!'")
    ELSE With(take_look_alpha(skip([s0 EXCEPT !.str = <<"!">>])), LAMBDA s1 :
         IF ch(s1) = "!"
         THEN skip([s1 EXCEPT !.str = Append(@, "!")])
         ELSE IF directive /\ s1.str # <<"!">>
         THEN Err(s1, m, "while parsing a tag directive, did not find expected '!'")
         ELSE s1))

\* the width of the UTF-8 sequence a leading octet announces, 0 for none
utf8_width(octet) ==
    IF octet < 128 THEN 1
    ELSE IF octet >= 192 /\ octet < 224 THEN 2
    ELSE IF octet >= 224 /\ octet < 240 THEN 3
    ELSE IF octet >= 240 /\ octet < 248 THEN 4
    ELSE 0

\* the loop of scan_uri_escapes; self.code is code
RECURSIVE uri_octets(_, _, _)

\* the turn of the loop for the octet read
uri_octet(self, m, width, octet) ==
    IF width = 0 /\ utf8_width(octet) = 0
    THEN Err(self, m, "while parsing a tag, found an incorrect leading UTF-8 octet")
    ELSE IF width # 0 /\ ~(octet >= 128 /\ octet < 192)
    THEN Err(self, m, "while parsing a tag, found an incorrect trailing UTF-8 octet")
    ELSE With((IF width = 0 THEN utf8_width(octet) ELSE width) - 1, LAMBDA left :
         With(skip(skip(skip([self EXCEPT !.code = IF width = 0 THEN u32(0, octet)
                                                   ELSE shl_add(@, 8, octet)]))),
              LAMBDA s3 :
              IF left = 0 THEN s3 ELSE uri_octets(s3, m, left)))

uri_octets(self, m, width) ==
    With(lookahead(self, 3), LAMBDA s1 :
    IF ~(ch(s1) = "%" /\ is_hex(s1.buffer[2]) /\ is_hex(s1.buffer[3]))
    THEN Err(s1, m, "while parsing a tag, did not find URI escaped octet")
    ELSE uri_octet(s1, m, width, as_hex(s1.buffer[2]) * 16 + as_hex(s1.buffer[3])))

scan_uri_escapes(self, directive, m) ==
    Then(uri_octets([self EXCEPT !.code = u32(0, 0)], m, 0), LAMBDA s1 :
    IF is_scalar_value(s1.code) THEN s1
    ELSE Err(s1, m, "while parsing a tag, found an invalid UTF-8 codepoint"))

is_uri_char(c) ==
    \/ c \in {";", "/", "?", ":", "@", "&", "=", "+", "$", ",", ".", "!", "~", "*",
              "'", "(", ")", "[", "]", "%"}
    \/ is_alpha(c)

\* the loop of scan_tag_uri; self.str is string
RECURSIVE uri_chars(_, _, _, _)
uri_chars(self, directive, m, length) ==
    With(lookahead(self, 1), LAMBDA s1 :
    IF is_uri_char(ch(s1))
    THEN IF ch(s1) = "%"
         THEN Then(scan_uri_escapes(s1, directive, m), LAMBDA s2 :
              uri_chars([s2 EXCEPT !.str = Append(@, char_of(s2.code))],
                        directive, m, length + 1))
         ELSE uri_chars(skip([s1 EXCEPT !.str = Append(@, ch(s1))]),
                        directive, m, length + 1)
    ELSE IF length = 0
    THEN Err(s1, m, "while parsing a tag, did not find expected tag URI")
    ELSE s1)

scan_tag_uri(self, directive, is_secondary, head, m) ==
    uri_chars([self EXCEPT !.str = IF Len(head) > 1 THEN Tail(head) ELSE <<>>],
              directive, m, Len(head))

scan_tag_directive_value(self, m) ==
    Then(scan_tag_handle(skip_blanks(lookahead(self, 1)), TRUE, m), LAMBDA s1 :
    Then(scan_tag_uri(skip_blanks(lookahead(s1, 1)), TRUE, s1.str = <<"!", "!">>,
                      <<>>, m), LAMBDA s2 :
    With(lookahead(s2, 1), LAMBDA s3 :
    IF is_blankz(ch(s3))
    THEN [s3 EXCEPT !.tok = [Token(m, "TagDirective") EXCEPT !.s1 = s1.str, !.s2 = s2.str]]
    ELSE Err(s3, m, "while scanning TAG, did not find expected whitespace or line break"))))

scan_directive(self) ==
    Then(scan_directive_name(skip(self)), LAMBDA s1 :
    Then(IF s1.str = <<"Y", "A", "M", "L">>
         THEN scan_version_directive_value(s1, self.mark)
         ELSE IF s1.str = <<"T", "A", "G">>
         THEN scan_tag_directive_value(s1, self.mark)
         ELSE [skip_to_breakz(lookahead(s1, 1))
               EXCEPT !.tok = Token(self.mark, "TagDirective")], LAMBDA s2 :
    With(skip_blanks(lookahead(s2, 1)), LAMBDA s3 :
    With(IF ch(s3) = "#" THEN skip_to_breakz(s3) ELSE s3, LAMBDA s4 :
    IF ~is_breakz(ch(s4))
    THEN Err(s4, self.mark,
             "while scanning a directive, did not find expected comment or line break")
    ELSE IF is_break(ch(s4)) THEN skip_line(lookahead(s4, 2))
    ELSE s4))))

fetch_directive(self) ==
    Then(unroll_indent(self, -1), LAMBDA s1 :
    Then(remove_simple_key(s1), LAMBDA s2 :
    Then(scan_directive(disallow_simple_key(s2)), LAMBDA s3 :
    push_back(s3, s3.tok))))

(***************************************************************************)
(* Tags, anchors and aliases                                               *)
(***************************************************************************)
\* (handle, suffix) of scan_tag, as self.l
tag_parts(self, handle, suffix) == [self EXCEPT !.l = [handle |-> handle, suffix |-> suffix]]

scan_tag(self) ==
    With(lookahead(self, 2), LAMBDA s0 :
    Then(IF s0.buffer[2] = "<"
         THEN Then(scan_tag_uri(skip(skip(s0)), FALSE, FALSE, <<>>, self.mark), LAMBDA s1 :
              IF ch(s1) # ">"
              THEN Err(s1, self.mark, "while scanning a tag, did not find the expected '>'")
              ELSE tag_parts(skip(s1), <<>>, s1.str))
         ELSE Then(scan_tag_handle(s0, FALSE, self.mark), LAMBDA s1 :
              IF Len(s1.str) >= 2 /\ Head(s1.str) = "!" /\ Last(s1.str) = "!"
              THEN Then(scan_tag_uri(s1, FALSE, s1.str = <<"!", "!">>, <<>>, self.mark),
                        LAMBDA s2 : tag_parts(s2, s1.str, s2.str))
              ELSE Then(scan_tag_uri(s1, FALSE, FALSE, s1.str, self.mark), LAMBDA s2 :
                        IF s2.str = <<>> THEN tag_parts(s2, <<>>, <<"!">>)
                        ELSE tag_parts(s2, <<"!">>, s2.str))), LAMBDA s3 :
    With(lookahead(s3, 1), LAMBDA s4 :
    IF is_blankz(ch(s4))
    THEN [s4 EXCEPT !.tok = [Token(self.mark, "Tag")
                             EXCEPT !.s1 = s3.l.handle, !.s2 = s3.l.suffix]]
    ELSE Err(s4, self.mark,
             "while scanning a tag, did not find expected whitespace or line break"))))

fetch_tag(self) ==
    Then(save_simple_key(self), LAMBDA s1 :
    Then(scan_tag(disallow_simple_key(s1)), LAMBDA s2 :
    push_back(s2, s2.tok)))

\* while is_alpha(self.ch()) || self.ch_is(':') { push; skip; lookahead(1) }
RECURSIVE take_anchor(_)
take_anchor(self) ==
    IF is_alpha(ch(self)) \/ ch_is(self, ":")
    THEN With(lookahead(skip([self EXCEPT !.str = Append(@, ch(self))]), 1), take_anchor)
    ELSE self

scan_anchor(self, alias) ==
    With(take_anchor(lookahead(skip([self EXCEPT !.str = <<>>]), 1)), LAMBDA s1 :
    IF s1.str = <<>>
       \/ ~(is_blankz(ch(s1)) \/ ch(s1) \in {"?", ",", "]", "}", "%", "@", BACKTICK})
    THEN Err(s1, self.mark,
             "while scanning an anchor or alias, did not find expected alphabetic or numeric character")
    ELSE [s1 EXCEPT !.tok = [Token(self.mark, IF alias THEN "Alias" ELSE "Anchor")
                             EXCEPT !.s1 = s1.str]])

fetch_anchor(self, alias) ==
    Then(save_simple_key(self), LAMBDA s1 :
    Then(scan_anchor(disallow_simple_key(s1), alias), LAMBDA s2 :
    push_back(s2, s2.tok)))

(***************************************************************************)
(* Block scalars.  The locals of scan_block_scalar are the record self.l;  *)
(* `breaks` of the two indent skippers is self.l.trailing_breaks.          *)
(***************************************************************************)
\* while self.mark.col < indent && self.look_ch() == ' ' { self.skip(); }
RECURSIVE skip_indent_spaces(_, _)
skip_indent_spaces(self, ind) ==
    IF self.mark.col < ind
    THEN With(lookahead(self, 1), LAMBDA s1 :
         IF ch(s1) = " " THEN skip_indent_spaces(skip(s1), ind) ELSE s1)
    ELSE self

RECURSIVE skip_block_scalar_indent(_, _)
skip_block_scalar_indent(self, ind) ==
    With(lookahead(skip_indent_spaces(self, ind), 1), LAMBDA s1 :
    IF is_break(ch(s1))
    THEN Then([read_break(lookahead(s1, 2)) EXCEPT !.l.trailing_breaks = Append(@, "\n")],
              LAMBDA s2 : skip_block_scalar_indent(s2, ind))
    ELSE s1)

\* while self.look_ch() == ' ' { self.skip(); }
RECURSIVE skip_spaces(_)
skip_spaces(self) ==
    With(lookahead(self, 1), LAMBDA s1 :
    IF ch(s1) = " " THEN skip_spaces(skip(s1)) ELSE s1)

Max(a, b) == IF a >= b THEN a ELSE b

RECURSIVE first_line_indent_last(_, _)
first_line_indent_last(self, max_indent) ==
    With(skip_spaces(self), LAMBDA s1 :
    IF is_break(ch(s1))
    THEN Then([read_break(lookahead(s1, 2)) EXCEPT !.l.trailing_breaks = Append(@, "\n")],
              LAMBDA s2 : first_line_indent_last(s2, 0))
    ELSE [s1 EXCEPT !.l.indent = Max(Max(s1.mark.col, s1.indent + 1), 1)])

\* the loop of skip_block_scalar_first_line_indent
RECURSIVE first_line_indent(_, _)
first_line_indent(self, max_indent) ==
    With(skip_spaces(self), LAMBDA s1 :
    IF is_break(ch(s1))
    THEN Then([read_break(lookahead(s1, 2)) EXCEPT !.l.trailing_breaks = Append(@, "\n")],
              LAMBDA s2 : first_line_indent(s2, Max(max_indent, s1.mark.col)))
    ELSE [s1 EXCEPT !.l.indent = Max(Max(Max(max_indent, s1.mark.col), s1.indent + 1), 1)])

skip_block_scalar_first_line_indent(self) == first_line_indent(self, 0)

\* while is_blank(self.look_ch()) { self.skip(); }
RECURSIVE skip_look_blanks(_)
skip_look_blanks(self) ==
    With(lookahead(self, 1), LAMBDA s1 :
    IF is_blank(ch(s1)) THEN skip_look_blanks(skip(s1)) ELSE s1)

\* while !is_breakz(self.look_ch()) { self.skip(); }
RECURSIVE skip_look_to_breakz(_)
skip_look_to_breakz(self) ==
    With(lookahead(self, 1), LAMBDA s1 :
    IF is_breakz(ch(s1)) THEN s1 ELSE skip_look_to_breakz(skip(s1)))

\* the error of an indentation indicator '0'
zero_indicator(self) ==
    Err(self, self.l.start_mark,
        "while scanning a block scalar, found an indentation indicator equal to 0")

\* chomping of the indicator '+' or '-'
chomping_of(c) == IF c = "+" THEN 1 ELSE -1

\* the chomping and indentation indicators of the header
block_scalar_header(self) ==
    IF ch(self) = "+" \/ ch(self) = "-"
    THEN With(lookahead(skip([self EXCEPT !.l.chomping = chomping_of(ch(self))]), 1),
              LAMBDA s1 :
              IF is_digit(ch(s1))
              THEN IF ch(s1) = "0" THEN zero_indicator(s1)
                   ELSE skip([s1 EXCEPT !.l.increment = digit_value(ch(s1))])
              ELSE s1)
    ELSE IF is_digit(ch(self))
    THEN IF ch(self) = "0" THEN zero_indicator(self)
         ELSE With(lookahead(skip([self EXCEPT !.l.increment = digit_value(ch(self))]), 1),
                   LAMBDA s1 :
                   IF ch(s1) = "+" \/ ch(s1) = "-"
                   THEN skip([s1 EXCEPT !.l.chomping = chomping_of(ch(s1))])
                   ELSE s1)
    ELSE self

\* while !is_breakz(self.ch()) { string.push(self.ch()); self.skip(); self.lookahead(1); }
RECURSIVE block_line(_)
block_line(self) ==
    IF is_breakz(ch(self)) THEN self
    ELSE With(lookahead(skip([self EXCEPT !.l.string = Append(@, ch(self))]), 1),
              block_line)

\* the head of the loop body: fold or keep the breaks before the line
block_line_start(self, literal) ==
    With(self.l, LAMBDA l :
    With(IF ~literal /\ l.leading_break # <<>> /\ ~l.leading_blank /\ ~is_blank(ch(self))
         THEN IF l.trailing_breaks = <<>> THEN Append(l.string, " ") ELSE l.string
         ELSE l.string \o l.leading_break, LAMBDA string1 :
    [self EXCEPT !.l = [l EXCEPT !.string = string1 \o l.trailing_breaks,
                                 !.leading_break = <<>>,
                                 !.trailing_breaks = <<>>,
                                 !.leading_blank = is_blank(ch(self))]]))

\* while self.mark.col == indent && !is_z(self.ch()) { ... }
RECURSIVE block_lines(_, _)
block_lines(self, literal) ==
    IF self.mark.col = self.l.indent /\ ~is_z(ch(self))
    THEN With(block_line(block_line_start(self, literal)), LAMBDA s2 :
         IF is_z(ch(s2)) THEN s2
         ELSE Then([read_break(lookahead(s2, 2)) EXCEPT !.l.leading_break = Append(@, "\n")],
                   LAMBDA s3 :
              Then(skip_block_scalar_indent(s3, s3.l.indent), LAMBDA s4 :
              block_lines(s4, literal))))
    ELSE self

chomp_tail_clip(l) == l.string \o l.leading_break

\* "Chomp the tail."
chomp_tail(l) ==
    l.string \o (IF l.chomping # -1 THEN l.leading_break ELSE <<>>)
             \o (IF l.chomping = 1 THEN l.trailing_breaks ELSE <<>>)

\* scan_block_scalar from `if increment > 0` on
block_scalar_content(self, literal) ==
    With(IF self.l.increment > 0
         THEN [self EXCEPT !.l.indent = IF self.indent >= 0
                                        THEN self.indent + self.l.increment
                                        ELSE self.l.increment]
         ELSE self, LAMBDA s6 :
    Then(IF s6.l.indent = 0 THEN skip_block_scalar_first_line_indent(s6)
         ELSE skip_block_scalar_indent(s6, s6.l.indent), LAMBDA s7 :
    With(lookahead(s7, 1), LAMBDA s8 :
    Then(block_lines(s8, literal), LAMBDA s9 :
    [s9 EXCEPT !.tok = ScalarToken(s8.mark, IF literal THEN "Literal" ELSE "Foled",
                                   chomp_tail(s9.l))]))))

scan_block_scalar(self, literal) ==
    Then(block_scalar_header(lookahead(skip(
             [self EXCEPT !.l = [start_mark |-> self.mark, chomping |-> 0,
                                 increment |-> 0, indent |-> 0,
                                 leading_blank |-> FALSE, string |-> <<>>,
                                 leading_break |-> <<>>, trailing_breaks |-> <<>>]]), 1)),
         LAMBDA s1 :
    With(skip_look_blanks(s1), LAMBDA s2 :
    With(IF ch(s2) = "#" THEN skip_look_to_breakz(s2) ELSE s2, LAMBDA s3 :
    IF ~is_breakz(ch(s3))
    THEN Err(s3, s3.l.start_mark,
             "while scanning a block scalar, did not find expected comment or line break")
    ELSE With(lookahead(IF is_break(ch(s3)) THEN skip_line(lookahead(s3, 2)) ELSE s3, 1),
              LAMBDA s5 :
         IF ch(s5) = "\t"
         THEN Err(s5, s5.l.start_mark, "a block scalar content cannot start with a tab")
         ELSE block_scalar_content(s5, literal)))))

fetch_block_scalar(self, literal) ==
    Then(save_simple_key(self), LAMBDA s1 :
    Then(scan_block_scalar(allow_simple_key(s1), literal), LAMBDA s2 :
    push_back(s2, s2.tok)))

(***************************************************************************)
(* Quoted scalars.  The locals of scan_flow_scalar are the record self.l.  *)
(***************************************************************************)
\* The character of a one-letter escape, <<>> for x, u, U and unknown ones
escape_value(c) ==
    CASE c = "0" -> <<NUL>>
      [] c = "a" -> <<"U+7">>
      [] c = "b" -> <<"U+8">>
      [] c = "t" \/ c = "\t" -> <<"\t">>
      [] c = "n" -> <<"\n">>
      [] c = "v" -> <<"U+11">>
      [] c = "f" -> <<"U+12">>
      [] c = "r" -> <<"\r">>
      [] c = "e" -> <<"U+27">>
      [] c = " " -> <<" ">>
      [] c = "\"" -> <<"\"">>
      [] c = "'" -> <<"'">>
      [] c = "\\" -> <<"\\">>
      [] c = "N" -> <<"U+133">>
      [] c = "_" -> <<"U+160">>
      [] c = "L" -> <<"U+8232">>
      [] c = "P" -> <<"U+8233">>
      [] OTHER -> <<>>

code_length_of(c) == IF c = "x" THEN 2 ELSE IF c = "u" THEN 4 ELSE IF c = "U" THEN 8 ELSE 0

\* for i in 0..code_length: the hex digits buffer[i], from digit i on;
\* self.code is value
RECURSIVE hex_digits(_, _, _)
hex_digits(self, i, code_length) ==
    IF i = code_length THEN self
    ELSE IF ~is_hex(self.buffer[i + 1])
    THEN Err(self, self.l.start_mark,
             "while parsing a quoted scalar, did not find expected hexadecimal number")
    ELSE With([self EXCEPT !.code = shl_add(@, 4, as_hex(self.buffer[i + 1]))],
              LAMBDA s1 : hex_digits(s1, i + 1, code_length))

RECURSIVE skip_n(_, _)
skip_n(self, n) ==
    IF n = 0 THEN self ELSE With(skip(self), LAMBDA s1 : skip_n(s1, n - 1))

flow_escape_code_wide(self, code_length) ==
    Then(hex_digits([lookahead(self, code_length + 1) EXCEPT !.code = u32(0, 0)],
                    0, code_length), LAMBDA s2 :
    IF ~is_scalar_value(s2.code)
    THEN Err(s2, s2.l.start_mark,
             "while parsing a quoted scalar, found invalid Unicode character escape code")
    ELSE skip_n([s2 EXCEPT !.l.string = Append(@, char_of(s2.code))], code_length))

\* "Consume an arbitrary escape code."
flow_escape_code(self, code_length) ==
    Then(hex_digits([lookahead(self, code_length) EXCEPT !.code = u32(0, 0)],
                    0, code_length), LAMBDA s2 :
    IF ~is_scalar_value(s2.code)
    THEN Err(s2, s2.l.start_mark,
             "while parsing a quoted scalar, found invalid Unicode character escape code")
    ELSE skip_n([s2 EXCEPT !.l.string = Append(@, char_of(s2.code))], code_length))

\* the arm `'\\' if !single` of the inner loop
flow_escape(self) ==
    With(self.buffer[2], LAMBDA c :
    IF escape_value(c) = <<>> /\ code_length_of(c) = 0
    THEN Err(self, self.l.start_mark,
             "while parsing a quoted scalar, found unknown escape character")
    ELSE With(skip(skip([self EXCEPT !.l.string = @ \o escape_value(c)])), LAMBDA s1 :
         IF code_length_of(c) > 0 THEN flow_escape_code(s1, code_length_of(c)) ELSE s1))

\* while !is_blankz(self.ch()) { match self.ch() { ... } self.lookahead(2); }
RECURSIVE flow_chars(_, _)
flow_chars(self, single) ==
    With(ch(self), LAMBDA c :
    IF is_blankz(c) THEN self
    ELSE IF c = "'" /\ self.buffer[2] = "'" /\ single
    THEN With(lookahead(skip(skip([self EXCEPT !.l.string = Append(@, "'")])), 2),
              LAMBDA s1 : flow_chars(s1, single))
    ELSE IF (c = "'" /\ single) \/ (c = "\"" /\ ~single) THEN self
    ELSE IF c = "\\" /\ ~single /\ is_break(self.buffer[2])
    THEN [skip_line(skip(lookahead(self, 3))) EXCEPT !.l.leading_blanks = TRUE]
    ELSE IF c = "\\" /\ ~single
    THEN Then(flow_escape(self), LAMBDA s1 : flow_chars(lookahead(s1, 2), single))
    ELSE With(lookahead(skip([self EXCEPT !.l.string = Append(@, c)]), 2),
              LAMBDA s1 : flow_chars(s1, single)))

\* the arm of a line break in the loop over blanks
flow_break(self) ==
    IF self.l.leading_blanks
    THEN [read_break(self) EXCEPT !.l.trailing_breaks = Append(@, "\n")]
    ELSE [read_break(self) EXCEPT !.l.whitespaces = <<>>,
                                  !.l.leading_break = Append(@, "\n"),
                                  !.l.leading_blanks = TRUE]

\* while is_blank(self.ch()) || is_break(self.ch()) { ... self.lookahead(1); }
RECURSIVE flow_blanks(_)
flow_blanks(self) ==
    IF is_blank(ch(self))
    THEN With(lookahead(skip(IF self.l.leading_blanks THEN self
                             ELSE [self EXCEPT !.l.whitespaces = Append(@, ch(self))]), 1),
              flow_blanks)
    ELSE IF is_break(ch(self))
    THEN Then(flow_break(lookahead(self, 2)), LAMBDA s2 : flow_blanks(lookahead(s2, 1)))
    ELSE self

\* "Join the whitespaces or fold line breaks."
flow_join(l) ==
    IF l.leading_blanks
    THEN IF l.leading_break = <<>>
         THEN [l EXCEPT !.string = @ \o l.leading_break \o l.trailing_breaks,
                        !.trailing_breaks = <<>>, !.leading_break = <<>>]
         ELSE IF l.trailing_breaks = <<>>
              THEN [l EXCEPT !.string = Append(@, " "), !.leading_break = <<>>]
              ELSE [l EXCEPT !.string = @ \o l.trailing_breaks,
                             !.trailing_breaks = <<>>, !.leading_break = <<>>]
    ELSE [l EXCEPT !.string = @ \o l.whitespaces, !.whitespaces = <<>>]

\* '\'' if single, '"' if !single
is_right_quote(self, single) == (ch(self) = "'" /\ single) \/ (ch(self) = "\"" /\ ~single)

\* the outer loop of scan_flow_scalar, left at the closing quote
RECURSIVE flow_loop(_, _)
flow_loop(self, single) ==
    With(lookahead(self, 4), LAMBDA s1 :
    IF at_document_indicator(s1)
    THEN Err(s1, s1.l.start_mark,
             "while scanning a quoted scalar, found unexpected document indicator")
    ELSE IF is_z(ch(s1))
    THEN Err(s1, s1.l.start_mark,
             "while scanning a quoted scalar, found unexpected end of stream")
    ELSE Then(flow_chars([lookahead(s1, 2) EXCEPT !.l.leading_blanks = FALSE], single),
              LAMBDA s2 :
         With(lookahead(s2, 1), LAMBDA s3 :
         IF is_right_quote(s3, single) THEN s3
         ELSE Then(flow_blanks(s3), LAMBDA s4 :
              flow_loop([s4 EXCEPT !.l = flow_join(s4.l)], single)))))

scan_flow_scalar(self, single) ==
    Then(flow_loop(skip([self EXCEPT !.l = [start_mark |-> self.mark, string |-> <<>>,
                                            leading_break |-> <<>>, trailing_breaks |-> <<>>,
                                            whitespaces |-> <<>>, leading_blanks |-> FALSE]]),
                   single), LAMBDA s1 :
    [skip(s1) EXCEPT !.tok = ScalarToken(s1.l.start_mark,
                                         IF single THEN "SingleQuoted" ELSE "DoubleQuoted",
                                         s1.l.string)])

fetch_flow_scalar_unmarked(self, single) ==
    Then(save_simple_key(self), LAMBDA s1 :
    Then(scan_flow_scalar(disallow_simple_key(s1), single), LAMBDA s2 :
    push_back(s2, s2.tok)))

fetch_flow_scalar(self, single) ==
    Then(save_simple_key(self), LAMBDA s1 :
    Then(scan_flow_scalar(disallow_simple_key(s1), single), LAMBDA s2 :
    push_back([s2 EXCEPT !.adjacent_value_allowed_at = s2.mark.index], s2.tok)))

(***************************************************************************)
(* The driver                                                              *)
(***************************************************************************)
\* the `match c` of fetch_next_token
dispatch(self) ==
    With(self.buffer[1], LAMBDA c :
    With(self.buffer[2], LAMBDA nc :
    CASE c = "[" -> fetch_flow_collection_start(self, "FlowSequenceStart")
      [] c = "{" -> fetch_flow_collection_start(self, "FlowMappingStart")
      [] c = "]" -> fetch_flow_collection_end(self, "FlowSequenceEnd")
      [] c = "}" -> fetch_flow_collection_end(self, "FlowMappingEnd")
      [] c = "," -> fetch_flow_entry(self)
      [] c = "-" /\ is_blankz(nc) -> fetch_block_entry(self)
      [] c = "?" /\ is_blankz(nc) -> fetch_key(self)
      [] c = ":" /\ (is_blankz(nc)
                     \/ (self.flow_level > 0
                         /\ (is_flow(nc)
                             \/ self.mark.index = self.adjacent_value_allowed_at))) ->
            fetch_value(self)
      [] c = "*" -> fetch_anchor(self, TRUE)
      [] c = "&" -> fetch_anchor(self, FALSE)
      [] c = "!" -> fetch_tag(self)
      [] c = "|" /\ self.flow_level = 0 -> fetch_block_scalar(self, TRUE)
      [] c = ">" /\ self.flow_level = 0 -> fetch_block_scalar(self, FALSE)
      [] c = "'" -> fetch_flow_scalar(self, TRUE)
      [] c = "\"" -> fetch_flow_scalar(self, FALSE)
      [] c = "-" /\ ~is_blankz(nc) -> fetch_plain_scalar(self)
      [] c \in {":", "?"} /\ ~is_blankz(nc) /\ self.flow_level = 0 ->
            fetch_plain_scalar(self)
      [] c \in {"%", "@", BACKTICK} ->
            Err(self, self.mark, "unexpected character: " \o BACKTICK \o c \o "'")
      [] OTHER -> fetch_plain_scalar(self)))

\* fetch_next_token, from skip_to_next_token to lookahead(4): the scanner in
\* front of the token to fetch
to_next_token(self) ==
    Then(skip_to_next_token(self), LAMBDA s1 :
    Then(stale_simple_keys(s1), LAMBDA s2 :
    Then(unroll_indent(s2, s2.mark.col), LAMBDA s3 :
    lookahead(s3, 4))))

fetch_next_token(self) ==
    With(lookahead(self, 1), LAMBDA s0 :
    IF ~s0.stream_start_produced THEN fetch_stream_start(s0)
    ELSE Then(to_next_token(s0), LAMBDA s4 :
         IF is_z(ch(s4)) THEN fetch_stream_end(s4)
         ELSE IF s4.mark.col = 0 /\ ch_is(s4, "%") THEN fetch_directive(s4)
         ELSE IF at_document_indicator(s4)
         THEN fetch_document_indicator(s4, IF ch(s4) = "-" THEN "DocumentStart"
                                           ELSE "DocumentEnd")
         ELSE dispatch(s4)))

\* The part of one turn of the loop of fetch_more_tokens that decides
\* need_more: the scanner after it (failed when stale_simple_keys failed).
need_more_scan(self) ==
    IF self.tokens = <<>> THEN self ELSE stale_simple_keys(self)

need_more_when_empty(self) == self.tokens = <<>>

need_more(self) ==
    \/ self.tokens = <<>>
    \/ \E i \in 1..Len(self.simple_keys) :
           /\ self.simple_keys[i].possible
           /\ self.simple_keys[i].token_number = self.tokens_parsed

\* One turn of the loop of fetch_more_tokens; .done tells that the loop was left
fetch_more_tokens_turn(self) ==
    With(need_more_scan(self), LAMBDA s1 :
    IF Failed(s1) THEN [s1 EXCEPT !.done = TRUE]
    ELSE IF need_more(s1)
    THEN With(fetch_next_token(s1), LAMBDA s2 : [s2 EXCEPT !.done = Failed(s2)])
    ELSE [s1 EXCEPT !.token_available = TRUE, !.done = TRUE])

\* next_token, from `let t = self.tokens.pop_front().unwrap()` on
pop_token(self) ==
    IF self.tokens = <<>> THEN Panic(self)
    ELSE [self EXCEPT !.tokens = Tail(@),
                      !.token_available = FALSE,
                      !.tokens_parsed = @ + 1,
                      !.stream_end_produced = @ \/ Head(self.tokens).tt = "StreamEnd",
                      !.tok = Head(self.tokens)]

(***************************************************************************)
(* The state machine: a caller pulling tokens, through Iterator::next or   *)
(* through next_token.  A pull that has to fetch runs fetch_more_tokens    *)
(* one turn of its loop at a time.                                         *)
(***************************************************************************)
Commit(s) ==
    /\ rdr' = s.rdr
    /\ mark' = s.mark
    /\ tokens' = s.tokens
    /\ buffer' = s.buffer
    /\ stream_start_produced' = s.stream_start_produced
    /\ stream_end_produced' = s.stream_end_produced
    /\ adjacent_value_allowed_at' = s.adjacent_value_allowed_at
    /\ simple_key_allowed' = s.simple_key_allowed
    /\ simple_keys' = s.simple_keys
    /\ indent' = s.indent
    /\ indents' = s.indents
    /\ flow_level' = s.flow_level
    /\ tokens_parsed' = s.tokens_parsed
    /\ token_available' = s.token_available
    /\ leading_whitespace' = s.leading_whitespace

scanner == <<rdr, mark, tokens, buffer, stream_start_produced,
             stream_end_produced, adjacent_value_allowed_at, simple_key_allowed,
             simple_keys, indent, indents, flow_level, tokens_parsed,
             token_available, leading_whitespace>>

Returned(kind, err, via) == [kind |-> kind, err |-> err, via |-> via]

\* fetch_more_tokens: the turns of its loop, to the end
RECURSIVE fetch_more_tokens(_)
fetch_more_tokens(self) ==
    With(fetch_more_tokens_turn(self), LAMBDA s1 :
    IF s1.done THEN s1 ELSE fetch_more_tokens(s1))

\* Scanner::next_token as a whole: tok is NoToken for Ok(None)
next_token(self) ==
    IF self.stream_end_produced THEN self
    ELSE Then(IF self.token_available THEN self ELSE fetch_more_tokens(self), pop_token)

\* Iterator::next as a whole: tok is NoToken for None
iterator_next(self) ==
    IF self.error # <<>> THEN self
    ELSE With(next_token(self), LAMBDA s1 :
         IF s1.ret # <<>> /\ ~s1.panic
         THEN [s1 EXCEPT !.error = s1.ret, !.ret = <<>>, !.tok = NoToken]
         ELSE s1)

\* the scanner held in record self, at the call of a method
Fresh(self) ==
    [self EXCEPT !.ret = <<>>, !.tok = NoToken, !.str = <<>>, !.num = 0,
                 !.code = [hi |-> 0, lo |-> 0], !.l = <<>>, !.done = FALSE,
                 !.peak = Len(self.buffer)]

\* what the pull that left the scanner in record s has returned
ResultOf(s, caller) ==
    IF s.panic THEN Returned("Panic", <<>>, caller)
    ELSE IF s.ret # <<>> THEN Returned("Err", s.ret, caller)
    ELSE IF s.tok # NoToken THEN Returned("Some", <<>>, caller)
    ELSE Returned("None", <<>>, caller)

\* one pull of the second scanner, through the interface caller
TwinPull(t, caller) ==
    With(IF caller = "iter" THEN iterator_next(Fresh(t.s)) ELSE next_token(Fresh(t.s)),
         LAMBDA s1 :
         [s |-> s1,
          out |-> IF ~Failed(s1) /\ s1.tok # NoToken THEN Append(t.out, s1.tok) ELSE t.out,
          result |-> ResultOf(s1, caller)])

TwinAfter(caller) == IF twin = <<>> THEN twin ELSE <<TwinPull(twin[1], caller)>>

\* The pull ends: Ok(Some(t)) after the pop, Err(e) or a panic otherwise.
\* Iterator::next latches the error and returns None.
Finish(s, caller) ==
    /\ Commit(s)
    /\ input' = input
    /\ twin' = TwinAfter(caller)
    /\ IF s.panic
       THEN /\ pc' = "panicked"
            /\ result' = Returned("Panic", <<>>, caller)
            /\ UNCHANGED <<out, error, first_error>>
       ELSE IF s.ret # <<>>
       THEN /\ pc' = "idle"
            /\ out' = out
            /\ first_error' = IF first_error = <<>> THEN s.ret ELSE first_error
            /\ IF caller = "iter"
               THEN error' = s.ret /\ result' = Returned("None", <<>>, caller)
               ELSE error' = error /\ result' = Returned("Err", s.ret, caller)
       ELSE /\ pc' = "idle"
            /\ out' = Append(out, s.tok)
            /\ result' = Returned("Some", <<>>, caller)
            /\ UNCHANGED <<error, first_error>>

next_token_enter_live(caller) ==
    IF token_available
    THEN \E t \in {pop_token(Self)} : Finish(t, caller)
    ELSE /\ pc' = caller
         /\ result' = Returned("Pending", <<>>, caller)
         /\ UNCHANGED <<scanner, error, out, first_error, input, twin>>

\* next_token, up to the call of fetch_more_tokens
next_token_enter(caller) ==
    IF stream_end_produced
    THEN /\ result' = Returned("None", <<>>, caller)
         /\ twin' = TwinAfter(caller)
         /\ UNCHANGED <<scanner, error, pc, out, first_error, input>>
    ELSE IF token_available
    THEN \E t \in {pop_token(Self)} : Finish(t, caller)
    ELSE /\ pc' = caller
         /\ result' = Returned("Pending", <<>>, caller)
         /\ UNCHANGED <<scanner, error, out, first_error, input, twin>>

IteratorNext_unlatched ==
    /\ pc = "idle"
    /\ next_token_enter("iter")

IteratorNext_drains ==
    /\ pc = "idle"
    /\ IF error # <<>> /\ tokens # <<>>
       THEN \E t \in {pop_token(Self)} : Finish(t, "iter")
       ELSE IF error # <<>>
       THEN /\ result' = Returned("None", <<>>, "iter")
            /\ twin' = TwinAfter("iter")
            /\ UNCHANGED <<scanner, error, pc, out, first_error, input>>
       ELSE next_token_enter("iter")

IteratorNext ==
    /\ pc = "idle"
    /\ IF error # <<>>
       THEN /\ result' = Returned("None", <<>>, "iter")
            /\ twin' = TwinAfter("iter")
            /\ UNCHANGED <<scanner, error, pc, out, first_error, input>>
       ELSE next_token_enter("iter")

NextToken ==
    /\ pc = "idle"
    /\ next_token_enter("direct")

FetchStep_unsettled ==
    /\ pc \in {"iter", "direct"}
    /\ \E s \in {fetch_more_tokens_turn(Self),
                 fetch_more_tokens_turn([Self EXCEPT !.simple_key_allowed = ~@])} :
           /\ ~s.done
           /\ Commit(s)
           /\ UNCHANGED <<error, pc, result, out, first_error, input, twin>>

\* a turn of the loop that fetched a token and goes on with the loop
FetchStep ==
    /\ pc \in {"iter", "direct"}
    /\ \E s \in {fetch_more_tokens_turn(Self)} :
           /\ ~s.done
           /\ Commit(s)
           /\ UNCHANGED <<error, pc, result, out, first_error, input, twin>>

\* a turn of the loop that failed: the pull returns the error
FetchFail ==
    /\ pc \in {"iter", "direct"}
    /\ \E s \in {fetch_more_tokens_turn(Self)} :
           /\ s.done
           /\ Failed(s)
           /\ Finish(s, pc)

\* the loop is left with a token available: the pull hands out the first token
Deliver ==
    /\ pc \in {"iter", "direct"}
    /\ \E s \in {fetch_more_tokens_turn(Self)} :
           /\ s.done
           /\ ~Failed(s)
           /\ \E t \in {pop_token(s)} : Finish(t, pc)

Next == IteratorNext \/ NextToken \/ FetchStep \/ FetchFail \/ Deliver

(***************************************************************************)
(* Inputs                                                                  *)
(***************************************************************************)
MaxLen == 3

Alphabet == {"a", ":", " ", "\n", "-", "[", "]", ",", "{", "}"}

Words(S, n) == UNION {[1..k -> S] : k \in 0..n}

\* Longer inputs, one for each construct of the scanner
Scenarios ==
    { <<"a", ":", " ", "b">>,
      <<"a", ":", " ", "1", "\n", "b", ":", " ", "2", "\n">>,
      <<"a", ":", " ", "b", "\n", "c", "\n">>,
      <<"-", " ", "[", "\n", "a", ",">>,
      <<"-", " ", "[", "\n", "a", "]">>,
      <<"[", "?", " ", "a", "]">>,
      <<"-", " ", "[", "\n", "-", "-", "-">>,
      <<"-", " ", "a", "\n", "-", "-", "-">>,
      <<"-", " ", "x", "\n", "-", " ", "y", "\n">>,
      <<"a", ":", "\n", " ", "-", " ", "b", "\n", "c", ":", " ", "d">>,
      <<"-", " ", "-", " ", "a", "\n", "-", " ", "b">>,
      <<"?", " ", "a", "\n", ":", " ", "b">>,
      <<"[", "a", ",", " ", "b", "]">>,
      <<"{", "a", ":", " ", "b", "}">>,
      <<"{", "a", ":", " ", "[", "1", ",", " ", "2", "]", ",", " ", "b", ":", " ", "3", "}">>,
      <<"[", "[", "]", "]">>,
      <<"[", "{", "}", "]">>,
      <<"[", "{", "]", "}">>,
      <<"[", "a", ":", " ", "b", "]">>,
      <<"-", " ", "[", "a", "]", "\n", "-", " ", "b">>,
      <<"a", ":", " ", "[", "b">>,
      <<"-", " ", "[", "\n", "-", " ", "a">>,
      <<"[", "a", ",", " ", "-", " ", "b", "]">>,
      <<"a", " ", "@">>,
      <<"@">>,
      <<"@", " ", "a", ":", " ", "b", " ", "c">>,
      <<"a", ":", " ", "@", "b">>,
      <<"a", ":", " ", "b", ":", " ", "c">>,
      <<"\t", "-", " ", "x">>,
      <<"a", ":", "\n", "\t", "b">>,
      <<"'", "a", "'", ":", " ", "\"", "b", "\"">>,
      <<"\"", "a">>,
      <<"|", "\n", " ", "a", "\n">>,
      <<">", "-", "\n", " ", "a", "\n", " ", "b", "\n">>,
      <<"&", "a", " ", "*", "a">>,
      <<"!", "t", " ", "a">>,
      <<"%", "Y", "A", "M", "L", " ", "1", ".", "2", "\n", "-", "-", "-", "\n", "a">>,
      <<"-", "-", "-", "\n", "a", "\n", ".", ".", ".", "\n">>,
      <<"a", " ", "#", "c", "\n">> }

\* Lines that start with a tab in front of a block entry
TabInputs ==
    { <<" ", "-", "\n", "\t", "-", " ", "b">>,
      <<"-", "\n", "\t", "-", " ", "b">>,
      <<" ", "-", " ", "\"", "a", "\"", "\n", "\t", "-", " ", "b">>,
      <<"-", " ", "\"", "a", "\"", "\n", "\t", "-", " ", "b">>,
      <<" ", " ", "-", " ", "\"", "a", "\"", "\n", " ", "\t", "-", " ", "b">>,
      <<" ", "a", ":", "\n", "\t", "-", " ", "b">>,
      <<"a", ":", "\n", "\t", "-", " ", "b">>,
      <<"[", "\n", "\t", "-", " ", "b">> }

\* unit, k times
Rep(unit, k) == [i \in 1..(k * Len(unit)) |-> unit[((i - 1) % Len(unit)) + 1]]

\* Block mappings and block sequences of up to MaxEntries one-line entries,
\* all at the same column
MaxEntries == 3

RECURSIVE Concat(_)
Concat(seqs) == IF seqs = <<>> THEN <<>> ELSE Head(seqs) \o Concat(Tail(seqs))

SeqsUpTo(S, n) == UNION {[1..k -> S] : k \in 1..n}

Columns == {0, 1}

Entries == {<<"a">>, <<"b", "c">>} \X {<<"1">>, <<"x", "y">>}

MappingInput(col, es) ==
    Concat([i \in 1..Len(es) |->
               Rep(<<" ">>, col) \o es[i][1] \o <<":", " ">> \o es[i][2] \o <<"\n">>])

MappingCases ==
    {[chars |-> MappingInput(col, es), entries |-> es] :
        col \in Columns, es \in SeqsUpTo(Entries, MaxEntries)}

Items == {<<"x">>, <<"y", "z">>, <<"1">>}

SequenceInput(col, items) ==
    Concat([i \in 1..Len(items) |->
               Rep(<<" ">>, col) \o <<"-", " ">> \o items[i] \o <<"\n">>])

SequenceCases ==
    {[chars |-> SequenceInput(col, items), items |-> items] :
        col \in Columns, items \in SeqsUpTo(Items, MaxEntries)}

\* A ':' right behind a flow sequence end or a quoted scalar, in a flow
\* collection
AdjacentInputs ==
    { <<"{", "[", "a", "]", ":", "b", "}">>,
      <<"[", "[", "a", "]", ":", "b", "]">>,
      <<"{", "[", "a", "]", ":", " ", "b", "}">>,
      <<"{", "[", "a", "]", ":", ",", "}">>,
      <<"{", "\"", "a", "\"", ":", "b", "}">>,
      <<"[", "'", "a", "'", ":", "b", "]">>,
      <<"{", "\"", "a", "\"", " ", ":", "b", "}">>,
      <<"\"", "a", "\"", ":", "b">> }

\* Double-quoted scalars that hold one \x, \u or \U escape
EscapeDigits ==
    { <<"4", "1">>, <<"7", "e">>, <<"0", "0">>, <<"4", "G">>, <<"g", "1">>, <<"4", "\"">>,
      <<"0", "0", "4", "1">>, <<"D", "7", "F", "F">>, <<"D", "8", "0", "0">>,
      <<"d", "8", "0", "0">>, <<"D", "F", "F", "F">>, <<"E", "0", "0", "0">>,
      <<"F", "F", "F", "F">>, <<"2", "0", "2", "8">>, <<"0", "0", "g", "1">>,
      <<"0", "0", "0", "0", "0", "0", "4", "1">>,
      <<"0", "0", "0", "1", "F", "6", "0", "0">>,
      <<"0", "0", "1", "0", "F", "F", "F", "F">>,
      <<"0", "0", "1", "1", "0", "0", "0", "0">>,
      <<"0", "0", "0", "0", "D", "8", "0", "0">>,
      <<"0", "0", "0", "0", "D", "F", "F", "F">>,
      <<"0", "0", "0", "0", "E", "0", "0", "0">>,
      <<"F", "F", "F", "F", "F", "F", "F", "F">>,
      <<"8", "0", "0", "0", "0", "0", "4", "1">>,
      <<"1", "0", "0", "0", "0", "0", "4", "1">>,
      <<"0", "0", "1", "0", "f", "f", "f", "g">> }

EscapeLetter(digits) == IF Len(digits) = 2 THEN "x" ELSE IF Len(digits) = 4 THEN "u" ELSE "U"

EscapeInput(digits) == <<"\"", "\\", EscapeLetter(digits)>> \o digits \o <<"\"">>

\* %YAML directives: the digits of the two numbers and what stands between them
VersionDigits ==
    { <<>>, <<"0">>, <<"1">>, <<"1", "2">>,
      <<"1", "2", "3", "4", "5", "6", "7", "8", "9">>,
      <<"9", "9", "9", "9", "9", "9", "9", "9", "9">>,
      <<"0", "0", "0", "0", "0", "0", "0", "0", "1">>,
      <<"1", "2", "3", "4", "5", "6", "7", "8", "9", "0">>,
      <<"0", "0", "0", "0", "0", "0", "0", "0", "0", "1">> }

VersionCases ==
    {[major |-> d, sep |-> <<".">>, minor |-> <<"2">>] : d \in VersionDigits}
        \cup {[major |-> <<"1">>, sep |-> <<".">>, minor |-> d] : d \in VersionDigits}
        \cup {[major |-> <<"1">>, sep |-> x, minor |-> <<"2">>] :
                  x \in {<<>>, <<" ">>, <<"x">>, <<",">>}}

VersionInput(c) ==
    <<"%", "Y", "A", "M", "L", " ">> \o c.major \o c.sep \o c.minor \o <<"\n">>

\* Tags whose suffix is one run of %HH escapes: the two hex digits of each octet
UriOctets ==
    { << <<"4", "1">> >>, << <<"7", "e">> >>, << <<"2", "1">> >>,
      << <<"C", "2">>, <<"8", "0">> >>, << <<"C", "3">>, <<"A", "9">> >>,
      << <<"d", "f">>, <<"b", "f">> >>,
      << <<"E", "0">>, <<"A", "0">>, <<"8", "0">> >>,
      << <<"E", "2">>, <<"8", "2">>, <<"A", "C">> >>,
      << <<"E", "F">>, <<"B", "F">>, <<"B", "F">> >>,
      << <<"F", "0">>, <<"9", "0">>, <<"8", "0">>, <<"8", "0">> >>,
      << <<"F", "0">>, <<"9", "F">>, <<"9", "8">>, <<"8", "0">> >>,
      << <<"F", "4">>, <<"8", "F">>, <<"B", "F">>, <<"B", "F">> >>,
      << <<"8", "0">> >>, << <<"B", "F">> >>, << <<"F", "8">> >>, << <<"F", "F">> >>,
      << <<"C", "3">>, <<"4", "1">> >>, << <<"C", "3">>, <<"C", "3">> >>,
      << <<"E", "2">>, <<"8", "2">>, <<"4", "1">> >>,
      << <<"E", "2">>, <<"F", "F">>, <<"A", "C">> >>,
      << <<"F", "0">>, <<"9", "F">>, <<"9", "8">>, <<"C", "0">> >> }

UriInput(octets) ==
    <<"!">> \o [i \in 1..(3 * Len(octets)) |->
                  IF i % 3 = 1 THEN "%"
                  ELSE octets[(i + 2) \div 3][IF i % 3 = 2 THEN 1 ELSE 2]]

\* Plain scalars of two words: what stands between the words
PlainGaps ==
    { <<" ">>, <<" ", " ">>, <<"\t">>, <<" ", "\t", " ">>, <<"\n">>, <<"\r", "\n">>,
      <<"\r">>, <<" ", "\n">>, <<"\n", " ">>, <<" ", "\t", "\n", " ", " ">>,
      <<"\n", "\n">>, <<"\n", "\r", "\n", "\n">>, <<" ", "\n", " ", "\n", "\t", "\n", " ">>,
      <<"\n", "\n", "\n", "\n">> }

PlainInput(gap) == <<"a">> \o gap \o <<"b", "c">>

Newlines(n) == [i \in 1..n |-> "\n"]

\* Block scalars: the content lines, written two columns in, and the number
\* of empty lines behind each content line but the last
BlockBodies ==
    { [lines |-> <<<<"h", "e", "l", "l", "o">>, <<"w", "o", "r", "l", "d">>>>,
       blanks |-> <<0>>],
      [lines |-> <<<<"a">>, <<"b">>>>, blanks |-> <<1>>],
      [lines |-> <<<<"a">>, <<"b">>>>, blanks |-> <<2>>],
      [lines |-> <<<<"a">>, <<" ", "b">>, <<"c">>>>, blanks |-> <<0, 0>>],
      [lines |-> <<<<"a">>>>, blanks |-> <<>>] }

\* tail is the number of empty lines behind the last content line, -1 if the
\* input ends with the last content line and no line break
BlockCases ==
    [style : {"|", ">"}, chomp : {<<>>, <<"-">>, <<"+">>}, body : BlockBodies,
     tail : -1..2]

BlockInput(c) ==
    <<c.style>> \o c.chomp \o <<"\n">>
        \o Concat([i \in 1..Len(c.body.lines) |->
                       <<" ", " ">> \o c.body.lines[i]
                           \o (IF i < Len(c.body.lines) THEN Newlines(1 + c.body.blanks[i])
                               ELSE Newlines(1 + c.tail))])

Spaces(n) == [i \in 1..n |-> " "]

\* Literal block scalars with one content line `a`: what stands in front of
\* the header, the indentation digit of the header, the lengths of the lines
\* of spaces in front of the content line, and the column of the content line
BlockIndentCases ==
    [prefix : {<<>>, <<"-", " ">>},
     digit : {<<>>, <<"0">>, <<"1">>, <<"2">>, <<"9">>},
     blanks : {<<>>, <<1>>, <<3>>},
     col : 0..3]

BlockIndentInput(c) ==
    c.prefix \o <<"|">> \o c.digit \o <<"\n">>
        \o Concat([i \in 1..Len(c.blanks) |-> Spaces(c.blanks[i]) \o <<"\n">>])
        \o Spaces(c.col) \o <<"a", "\n">>

Inputs ==
    Words(Alphabet, MaxLen) \cup Scenarios \cup TabInputs \cup AdjacentInputs
        \cup {VersionInput(c) : c \in VersionCases}
        \cup {UriInput(octets) : octets \in UriOctets}
        \cup {PlainInput(gap) : gap \in PlainGaps}
        \cup {BlockInput(c) : c \in BlockCases}
        \cup {BlockIndentInput(c) : c \in BlockIndentCases}
        \cup {EscapeInput(digits) : digits \in EscapeDigits}
        \cup {m.chars : m \in MappingCases} \cup {m.chars : m \in SequenceCases}

\* Scanner::new(rdr)
InitWith(chars) ==
    /\ rdr = chars
    /\ buffer = <<>>
    /\ mark = Marker(0, 1, 0)
    /\ tokens = <<>>
    /\ error = <<>>
    /\ stream_start_produced = FALSE
    /\ stream_end_produced = FALSE
    /\ adjacent_value_allowed_at = 0
    /\ simple_key_allowed = TRUE
    /\ simple_keys = <<>>
    /\ indent = -1
    /\ indents = <<>>
    /\ flow_level = 0
    /\ tokens_parsed = 0
    /\ token_available = FALSE
    /\ leading_whitespace = TRUE
    /\ pc = "idle"
    /\ result = Returned("Start", <<>>, "none")
    /\ out = <<>>
    /\ first_error = <<>>
    /\ input = chars

Init == \E chars \in Inputs : InitWith(chars) /\ twin = <<>>

Spec == Init /\ [][Next]_vars

\* The caller that pulls through Iterator::next only, and goes on pulling
IterNext == IteratorNext \/ FetchStep \/ FetchFail \/ Deliver

\* Long inputs: a flow sequence that is a simple key, of n characters from its
\* '[' to the ':' behind its ']', and n nested flow sequence starts
Unit == <<"a", "a", "a", "a", "a", "a", "a", "a", ",">>

WindowInput(n) ==
    <<"[">> \o Rep(Unit, (n - 2) \div Len(Unit)) \o Rep(<<" ">>, (n - 2) % Len(Unit))
            \o <<"]", ":", " ", "b">>

Distances == {1023, 1024, 1025, 1026}

WindowInputs == {WindowInput(n) : n \in Distances}

Depths == {255, 256, 257}

DeepInputs == {Rep(<<"[">>, n) : n \in Depths} \cup {Rep(<<"{">>, n) : n \in Depths}

LongInputs == WindowInputs \cup DeepInputs

\* pulled through Iterator::next, which stops at the first error
InitLong == \E chars \in LongInputs : InitWith(chars) /\ twin = <<>>

SpecLong == InitLong /\ [][IterNext]_vars

\* Short inputs over the characters that start the scalar scanners, the
\* directives and the tags, and the line breaks
MaxChars == 3

CharAlphabet == {"\"", "'", "\\", "|", "%", "!", "\r", "\n", " ", "x", "0", "-"}

InitChars == \E chars \in Words(CharAlphabet, MaxChars) : InitWith(chars) /\ twin = <<>>

SpecChars == InitChars /\ [][Next]_vars

\* Two scanners created on the same characters
InitTwin ==
    /\ \E chars \in Inputs : InitWith(chars)
    /\ twin = <<[s |-> Self, out |-> <<>>, result |-> Returned("Start", <<>>, "none")]>>

SpecTwin == InitTwin /\ [][Next]_vars

SpecIter == Init /\ [][IterNext]_vars /\ WF_vars(IterNext)

(***************************************************************************)
(* Properties of the token stream                                          *)
(***************************************************************************)
\* the number of tokens of seq whose type is one of types
Count(seq, types) == Cardinality({i \in 1..Len(seq) : seq[i].tt \in types})

BlockStarts == {"BlockSequenceStart", "BlockMappingStart"}

BlockOnly == BlockStarts \cup {"BlockEntry", "BlockEnd"}

FlowStarts == {"FlowSequenceStart", "FlowMappingStart"}

FlowEnds == {"FlowSequenceEnd", "FlowMappingEnd"}

FlowStartOf(tt) == IF tt = "FlowSequenceEnd" THEN "FlowSequenceStart" ELSE "FlowMappingStart"

\* The flow collections left open by the tokens of seq, innermost last, from
\* the open ones in stack; <<"unmatched">> when a flow end closes no open
\* collection of its kind.
RECURSIVE OpenFlows(_, _)
OpenFlows(seq, stack) ==
    IF seq = <<>> THEN stack
    ELSE IF Head(seq).tt \in FlowStarts
    THEN OpenFlows(Tail(seq), Append(stack, Head(seq).tt))
    ELSE IF Head(seq).tt \in FlowEnds
    THEN IF stack # <<>> /\ Last(stack) = FlowStartOf(Head(seq).tt)
         THEN OpenFlows(Tail(seq), Front(stack))
         ELSE <<"unmatched">>
    ELSE OpenFlows(Tail(seq), stack)

\* a pull has returned (it is not inside fetch_more_tokens)
PullReturned == result.kind \in {"Some", "None", "Err"}

\* C1: while no pull has failed, the tokens handed out start with StreamStart,
\* a StreamEnd is the last token handed out, a pull returns None only after
\* StreamEnd was handed out, and once StreamEnd was handed out every pull
\* returns None, hands out nothing and leaves stream_ended() true.
C1_Handed ==
    first_error = <<>> =>
        /\ out # <<>> => out[1].tt = "StreamStart"
        /\ \A i \in 1..Len(out) : out[i].tt = "StreamEnd" => i = Len(out)
        /\ stream_end_produced <=> (out # <<>> /\ Last(out).tt = "StreamEnd")
        /\ result.kind = "None" => stream_end_produced

C1_AfterStreamEnd ==
    (first_error = <<>> /\ stream_end_produced) =>
        /\ stream_end_produced'
        /\ out' = out
        /\ result'.kind = "None"

C1_StreamStartToStreamEnd == [](C1_Handed) /\ [][C1_AfterStreamEnd]_vars

C1_Witness ==
    /\ first_error = <<>>
    /\ stream_end_produced
    /\ result.kind = "None"
    /\ Len(out) >= 4
    /\ out[1].tt = "StreamStart"
    /\ Last(out).tt = "StreamEnd"

\* C2: pulling through the iterator again and again, the pulls end up
\* returning None for ever; and every turn of fetch_more_tokens whose
\* fetch_next_token succeeded has consumed a character or queued
\* StreamStart or StreamEnd.
C2_FetchProgress ==
    (pc \in {"iter", "direct"} /\ pc' = pc) =>
        \/ mark'.index > mark.index
        \/ /\ Len(tokens') > Len(tokens)
           /\ Last(tokens').tt \in {"StreamStart", "StreamEnd"}

C2_IteratorTerminates == <>[](result.kind = "None") /\ [][C2_FetchProgress]_vars

C2_Witness ==
    /\ pc = "idle"
    /\ result.kind = "None"
    /\ result.via = "iter"
    /\ rdr = <<>>
    /\ mark.index >= 3
    /\ Len(out) >= 5

\* C3: the pull through Iterator::next that fails returns None and latches
\* the error; with an error latched, every call of Iterator::next returns
\* None and changes nothing of the scanner: no character is read, no token
\* is handed out.
C3_Step ==
    /\ (error = <<>> /\ error' # <<>>) =>
           (result'.kind = "None" /\ result'.via = "iter")
    /\ (error # <<>> /\ result'.via = "iter") =>
           (result'.kind = "None" /\ UNCHANGED <<scanner, error, out, pc>>)

C3_IteratorLatchesError == [][C3_Step]_vars

C3_Witness ==
    /\ error # <<>>
    /\ pc = "idle"
    /\ result.kind = "None"
    /\ result.via = "iter"
    /\ rdr # <<>>
    /\ out # <<>>

\* C4: once StreamEnd was handed out or a pull has failed, a call of
\* next_token returns None, and changes neither the scanner nor the tokens
\* handed out.
C4_Step ==
    ((stream_end_produced \/ first_error # <<>>) /\ result'.via = "direct") =>
        /\ result'.kind \in {"None", "Pending"}
        /\ UNCHANGED <<scanner, out>>

C4_NextTokenNoneAfterEndOrError == [][C4_Step]_vars

\* C5: get_error() is None until a pull fails, and from then on it is the
\* error of the first pull that failed, through whichever interface.
C5_GetErrorIsFirstError == PullReturned => error = first_error

\* C6: pulls made after an error return the tokens that were queued before
\* it: end of stream is reported only when no token is left in the queue.
C6_QueuedTokensReturned == (result.kind = "None" /\ pc = "idle") => tokens = <<>>

\* C6, amended: an error latched by Iterator::next ends the stream at once.
\* The tokens handed out before it stay as they are, the tokens still in
\* the queue stay there: every later call of Iterator::next returns None.
C6_Step ==
    (error # <<>> /\ tokens # <<>> /\ result'.via = "iter") =>
        /\ result'.kind = "None"
        /\ tokens' = tokens
        /\ out' = out

C6_QueuedTokensDropped == [][C6_Step]_vars

C6_Witness ==
    /\ error # <<>>
    /\ tokens # <<>>
    /\ out # <<>>
    /\ result.kind = "None"
    /\ result.via = "iter"

\* C7: when StreamEnd was handed out and no pull has failed, as many BlockEnd
\* as BlockSequenceStart and BlockMappingStart were handed out.
C7_BlocksClosedAtStreamEnd ==
    (stream_end_produced /\ first_error = <<>>) =>
        Count(out, {"BlockEnd"}) = Count(out, BlockStarts)

\* C8: in every prefix of the tokens handed out there are at most as many
\* BlockEnd as BlockSequenceStart and BlockMappingStart.
C8_BlockEndAfterBlockStart ==
    \A k \in 0..Len(out) :
        Count(SubSeq(out, 1, k), {"BlockEnd"}) <= Count(SubSeq(out, 1, k), BlockStarts)

\* a BlockMappingStart inserted in front of the Key of a simple key, behind
\* tokens already handed out, and closed by a BlockEnd
C8_Witness ==
    \E i, j \in 1..Len(out) :
        /\ 2 < i
        /\ i + 1 < j
        /\ out[i].tt = "BlockMappingStart"
        /\ out[i + 1].tt = "Key"
        /\ out[i].mark.index > out[i + 1].mark.index
        /\ out[j].tt = "BlockEnd"

\* C9: when StreamEnd was handed out and no pull has failed, every flow end
\* handed out has closed the innermost open flow collection, which was of
\* its kind, and no flow collection is left open.
C9_FlowCollectionsNested ==
    (stream_end_produced /\ first_error = <<>>) => OpenFlows(out, <<>>) = <<>>

\* the next token to fetch starts with a '-' block entry indicator, inside
\* a flow collection
BlockEntryInFlow ==
    /\ pc \in {"iter", "direct"}
    /\ flow_level > 0
    /\ With(need_more_scan(Self), LAMBDA s0 :
            /\ ~Failed(s0)
            /\ need_more(s0)
            /\ With(skip_to_next_token(lookahead(s0, 1)), LAMBDA s1 :
                    /\ ~Failed(s1)
                    /\ With(lookahead(s1, 2), LAMBDA s2 :
                            ch(s2) = "-" /\ is_blankz(s2.buffer[2]))))

\* C10: a step taken with flow_level > 0 adds no BlockEntry,
\* BlockSequenceStart, BlockMappingStart or BlockEnd to the token queue, and
\* the fetch of a '-' block entry inside a flow collection fails.
C10_Step ==
    /\ flow_level > 0 =>
           Count(tokens', BlockOnly) + Count(out', BlockOnly)
               = Count(tokens, BlockOnly) + Count(out, BlockOnly)
    /\ BlockEntryInFlow =>
           /\ pc' = "idle"
           /\ result'.kind \in {"None", "Err"}
           /\ first_error' # <<>>
           /\ tokens' = tokens
           /\ out' = out

C10_NoBlockTokenInFlow == [][C10_Step]_vars

C10_Witness ==
    /\ flow_level > 0
    /\ first_error # <<>>
    /\ first_error[1].info = "\"-\" is only valid inside a block"
    /\ Count(tokens, BlockOnly) + Count(out, BlockOnly) > 0

\* C11: the tokens handed out, in order, carry marks whose index never
\* decreases.
C11_MarkersMonotonic ==
    \A i \in 1..(Len(out) - 1) : out[i].mark.index <= out[i + 1].mark.index

\* the fields of the scanner held in record s
Fields(s) ==
    <<s.rdr, s.mark, s.tokens, s.buffer, s.error, s.stream_start_produced,
      s.stream_end_produced, s.adjacent_value_allowed_at, s.simple_key_allowed,
      s.simple_keys, s.indent, s.indents, s.flow_level, s.tokens_parsed,
      s.token_available, s.leading_whitespace>>

KeyTokens(seq) == {i \in 1..Len(seq) : seq[i].tt = "Key"}

\* the index of the first ':' of chars, counted from 0
ColonAt(chars) ==
    (CHOOSE i \in 1..Len(chars) : chars[i] = ":" /\ \A j \in 1..(i - 1) : chars[j] # ":") - 1

\* C13: a simple key that starts 1024 characters or more before its ':' is
\* never turned into a Key token.
C13_WindowRejectsFrom1024 ==
    (input \in WindowInputs /\ ColonAt(input) >= 1024) =>
        KeyTokens(tokens) = {} /\ KeyTokens(out) = {}

\* C13, amended: a simple key that starts more than 1024 characters before
\* its ':' is never turned into a Key token, and the ':' is then an error;
\* one that starts 1024 characters or less before it becomes a Key token
\* that carries the mark of the key's start.
C13_WindowRejectsAbove1024 ==
    /\ (input \in WindowInputs /\ ColonAt(input) > 1024) =>
           /\ KeyTokens(tokens) = {} /\ KeyTokens(out) = {}
           /\ ~stream_end_produced
    /\ (input \in WindowInputs /\ ColonAt(input) <= 1024 /\ stream_end_produced) =>
           /\ first_error = <<>>
           /\ \E i \in KeyTokens(out) :
                  /\ out[i].mark.index = 0
                  /\ out[i + 1].tt = "FlowSequenceStart"

C13_Witness ==
    /\ input \in WindowInputs
    /\ ColonAt(input) = 1025
    /\ first_error # <<>>
    /\ first_error[1].info = "mapping values are not allowed in this context"
    /\ first_error[1].mark.index = 1025
    /\ simple_keys[1].mark.index = 0
    /\ ~simple_keys[1].possible

\* the characters the scanner has not consumed yet
Rest == buffer \o rdr

\* the number of spaces at the head of seq
LeadingSpaces(seq) ==
    CHOOSE k \in 0..Len(seq) :
        /\ \A i \in 1..k : seq[i] = " "
        /\ (k < Len(seq) => seq[k + 1] # " ")

\* fetch_next_token is about to skip the leading whitespace of a line, in
\* block context, up to a tab that stands in front of a '-' block entry
TabBeforeBlockEntry ==
    /\ pc \in {"iter", "direct"}
    /\ stream_start_produced
    /\ flow_level = 0
    /\ leading_whitespace
    /\ With(need_more_scan(Self), LAMBDA s0 : ~Failed(s0) /\ need_more(s0))
    /\ With(LeadingSpaces(Rest), LAMBDA k :
            /\ Len(Rest) >= k + 2
            /\ Rest[k + 1] = "\t"
            /\ Rest[k + 2] = "-"
            /\ (Len(Rest) >= k + 3 => is_blank(Rest[k + 3]) \/ is_break(Rest[k + 3])))

\* the step fails, and the pull returns the error info
StepFailsWith(info) ==
    /\ pc' = "idle"
    /\ \/ result'.kind = "Err" /\ result'.err[1].info = info
       \/ /\ result'.kind = "None" /\ result'.via = "iter"
          /\ error' # <<>> /\ error'[1].info = info

\* C14: a tab in the leading whitespace of a line, in block context and in
\* front of a '-' block entry, makes the fetch fail with the error "tabs
\* disallowed within this context (block indentation)".
C14_Step ==
    TabBeforeBlockEntry =>
        StepFailsWith("tabs disallowed within this context (block indentation)")

C14_StepInsideIndent ==
    TabBeforeBlockEntry =>
        IF indents # <<>> /\ mark.col + LeadingSpaces(Rest) < indent
        THEN /\ StepFailsWith("tabs disallowed within this context (block indentation)")
             /\ first_error' # <<>>
             /\ first_error = <<>> =>
                    first_error'[1].mark =
                        Marker(mark.index + LeadingSpaces(Rest), mark.line,
                               mark.col + LeadingSpaces(Rest))
             /\ tokens' = tokens
             /\ out' = out
        ELSE /\ ~StepFailsWith("tabs disallowed within this context (block indentation)")
             /\ mark'.index > mark.index + LeadingSpaces(Rest)

C14_TabFirstInStream ==
    (input = <<"\t", "-", " ", "x">> /\ stream_end_produced) =>
        /\ first_error = <<>>
        /\ [i \in 1..Len(out) |-> out[i].tt] =
               <<"StreamStart", "BlockSequenceStart", "BlockEntry", "Scalar",
                 "BlockEnd", "StreamEnd">>

Shape(t) == <<t.tt, t.style, t.s1>>

Bare(tt) == <<tt, "", <<>>>>

PlainScalar(string) == <<"Scalar", "Plain", string>>

\* the tokens handed out so far are the first tokens of expected, and all
\* of them once StreamEnd was handed out; no pull has failed
ScansTo(expected) ==
    /\ first_error = <<>>
    /\ pc # "panicked"
    /\ Len(out) <= Len(expected)
    /\ [i \in 1..Len(out) |-> Shape(out[i])] = SubSeq(expected, 1, Len(out))
    /\ stream_end_produced => Len(out) = Len(expected)

\* C15: a block mapping of n >= 1 one-line entries `key: value`, all at the
\* same column, scans without error to StreamStart, one BlockMappingStart,
\* then Key, Scalar(Plain,key), Value, Scalar(Plain,value) for each entry,
\* then one BlockEnd, then StreamEnd.
C15_BlockMapping ==
    \A m \in MappingCases :
        input = m.chars =>
            ScansTo(<<Bare("StreamStart"), Bare("BlockMappingStart")>>
                    \o Concat([i \in 1..Len(m.entries) |->
                                  <<Bare("Key"), PlainScalar(m.entries[i][1]),
                                    Bare("Value"), PlainScalar(m.entries[i][2])>>])
                    \o <<Bare("BlockEnd"), Bare("StreamEnd")>>)

C15_Witness ==
    /\ input = MappingInput(1, <<<< <<"a">>, <<"1">> >>, << <<"b", "c">>, <<"x", "y">> >>,
                                 << <<"a">>, <<"x", "y">> >> >>)
    /\ stream_end_produced
    /\ Len(out) = 16

\* C16: a block sequence of n >= 1 entries `- item`, all at the same column,
\* one per line, scans without error to StreamStart, one BlockSequenceStart,
\* then BlockEntry, Scalar(Plain,item) for each entry, then one BlockEnd,
\* then StreamEnd.
C16_BlockSequence ==
    \A m \in SequenceCases :
        input = m.chars =>
            ScansTo(<<Bare("StreamStart"), Bare("BlockSequenceStart")>>
                    \o Concat([i \in 1..Len(m.items) |->
                                  <<Bare("BlockEntry"), PlainScalar(m.items[i])>>])
                    \o <<Bare("BlockEnd"), Bare("StreamEnd")>>)

C16_Witness ==
    /\ input = SequenceInput(1, << <<"x">>, <<"y", "z">>, <<"1">> >>)
    /\ stream_end_produced
    /\ Len(out) = 10

\* the token queued last
LastQueued == IF tokens # <<>> THEN Last(tokens) ELSE Last(out)

\* the next fetch is at a ':' that stands right behind the ']' of a flow
\* sequence end, inside a flow collection
ColonBehindFlowSequenceEnd ==
    /\ pc \in {"iter", "direct"}
    /\ flow_level > 0
    /\ tokens \o out # <<>>
    /\ LastQueued.tt = "FlowSequenceEnd"
    /\ LastQueued.mark.index + 1 = mark.index
    /\ Rest # <<>>
    /\ Rest[1] = ":"
    /\ With(need_more_scan(Self), LAMBDA s0 : ~Failed(s0) /\ need_more(s0))

\* C17: the fetch of a ']' that leaves the scanner inside a flow collection
\* sets adjacent_value_allowed_at to the index behind the ']', and the fetch
\* at a ':' right behind that ']' queues a Value token, whatever follows.
C17_Step ==
    /\ (/\ pc \in {"iter", "direct"}
        /\ Len(tokens') > Len(tokens)
        /\ Last(tokens').tt = "FlowSequenceEnd"
        /\ flow_level' > 0) => adjacent_value_allowed_at' = mark'.index
    /\ ColonBehindFlowSequenceEnd =>
           /\ tokens' # <<>>
           /\ Last(tokens').tt = "Value"
           /\ Last(tokens').mark.index = mark.index

C17_ValueBehindFlowSequenceEnd == [][C17_Step]_vars

HexLower == <<"0", "1", "2", "3", "4", "5", "6", "7", "8", "9", "a", "b", "c", "d", "e", "f">>

HexUpper == <<"0", "1", "2", "3", "4", "5", "6", "7", "8", "9", "A", "B", "C", "D", "E", "F">>

IsHexDigit(c) == \E v \in 0..15 : c \in {HexLower[v + 1], HexUpper[v + 1]}

HexValue(c) == CHOOSE v \in 0..15 : c \in {HexLower[v + 1], HexUpper[v + 1]}

\* the number written by the hexadecimal digits, four digits at most
RECURSIVE HexNumber(_)
HexNumber(digits) ==
    IF digits = <<>> THEN 0
    ELSE HexNumber(Front(digits)) * 16 + HexValue(Last(digits))

\* the code point written by 2, 4 or 8 hexadecimal digits, as its upper and
\* lower 16 bits
CodePoint(digits) ==
    IF Len(digits) <= 4 THEN [hi |-> 0, lo |-> HexNumber(digits)]
    ELSE [hi |-> HexNumber(SubSeq(digits, 1, 4)), lo |-> HexNumber(SubSeq(digits, 5, 8))]

\* a Unicode scalar value: at most 10FFFF, and not in D800..DFFF
IsScalarValue(cp) ==
    /\ cp.hi <= 16
    /\ ~(cp.hi = 0 /\ cp.lo >= 55296 /\ cp.lo <= 57343)

\* value = (value << 4) + as_hex(digit), for each digit
RECURSIVE Accumulated(_)
Accumulated(digits) ==
    IF digits = <<>> THEN u32(0, 0)
    ELSE shl_add(Accumulated(Front(digits)), 4, as_hex(Last(digits)))

ScalarTokens(seq) == {i \in 1..Len(seq) : seq[i].tt = "Scalar"}

EscapeError(digits) ==
    IF \A i \in 1..Len(digits) : IsHexDigit(digits[i])
    THEN "while parsing a quoted scalar, found invalid Unicode character escape code"
    ELSE "while parsing a quoted scalar, did not find expected hexadecimal number"

EscapeIsValid(digits) ==
    /\ \A i \in 1..Len(digits) : IsHexDigit(digits[i])
    /\ IsScalarValue(CodePoint(digits))

\* a valid escape scans to the one character of its code point; before an
\* invalid one fails, nothing but StreamStart was queued or handed out, and
\* no pull returned without a token
C18_State ==
    \A digits \in EscapeDigits :
        input = EscapeInput(digits) =>
            /\ (\A i \in 1..Len(digits) : IsHexDigit(digits[i])) =>
                    Accumulated(digits) = CodePoint(digits)
            /\ IF EscapeIsValid(digits)
               THEN ScansTo(<<Bare("StreamStart"),
                              <<"Scalar", "DoubleQuoted", <<char_of(CodePoint(digits))>> >>,
                              Bare("StreamEnd")>>)
               ELSE first_error = <<>> =>
                        /\ pc # "panicked"
                        /\ \A i \in 1..Len(tokens) : tokens[i].tt = "StreamStart"
                        /\ \A i \in 1..Len(out) : out[i].tt = "StreamStart"
                        /\ (pc = "idle" /\ Len(out) >= 1) => result.kind = "Some"

\* the step in which an invalid escape fails reports the escape's error and
\* leaves no Scalar token in the queue
C18_Step ==
    \A digits \in EscapeDigits :
        (input = EscapeInput(digits) /\ ~EscapeIsValid(digits)
            /\ first_error = <<>> /\ first_error' # <<>>) =>
                /\ first_error'[1].info = EscapeError(digits)
                /\ ScalarTokens(tokens') = {}
                /\ ScalarTokens(out') = {}
                /\ ~stream_end_produced'

\* C18: a double-quoted scalar that holds one \x, \u or \U escape scans to
\* the scalar of the one character whose code point its 2, 4 or 8 hex
\* digits write, and the 32 bits of the accumulated value hold all the
\* digits; if a digit is not hexadecimal, or the code point is in
\* D800..DFFF or above 10FFFF, the scan fails with the escape's error and
\* no Scalar token is queued.
C18_HexEscapes == [](C18_State) /\ [][C18_Step]_vars

C18_Witness ==
    /\ input = EscapeInput(<<"0", "0", "1", "0", "F", "F", "F", "F">>)
    /\ stream_end_produced
    /\ Len(out) = 3
    /\ out[2].s1 = <<"U+1114111">>

\* fetch_next_token is about to fetch a '[' or a '{' while flow_level is 255
FlowStartAtLimit ==
    /\ pc \in {"iter", "direct"}
    /\ stream_start_produced
    /\ flow_level = 255
    /\ With(need_more_scan(Self), LAMBDA s0 : ~Failed(s0) /\ need_more(s0))
    /\ Rest # <<>>
    /\ Head(Rest) \in {"[", "{"}

FlowStartsIn(seq) ==
    {i \in 1..Len(seq) : seq[i].tt \in FlowStarts}

C19_Step ==
    FlowStartAtLimit =>
        /\ StepFailsWith("recursion limit exceeded")
        /\ flow_level' = 255
        /\ tokens' = tokens
        /\ out' = out

\* C19: flow_level stays within 0..255 and never wraps: the fetch of a '['
\* or a '{' at flow_level 255 fails with "recursion limit exceeded", leaves
\* flow_level at 255 and queues no flow-start token.
C19_FlowLevelBounded ==
    /\ [](flow_level >= 0 /\ flow_level <= 255)
    /\ [](Cardinality(FlowStartsIn(out)) + Cardinality(FlowStartsIn(tokens)) <= 255)
    /\ [][C19_Step]_vars

C19_Witness ==
    /\ first_error # <<>>
    /\ first_error[1].info = "recursion limit exceeded"
    /\ first_error[1].mark.index = 255
    /\ flow_level = 255
    /\ Cardinality(FlowStartsIn(out)) + Cardinality(FlowStartsIn(tokens)) = 255
    /\ Len(input) = 257

\* C20: once the stream start has been fetched, simple_keys holds one entry
\* for the block context and one for each open flow collection:
\* simple_keys.length = flow_level + 1, also after a flow-collection start
\* that failed.
C20_SimpleKeysPerLevel ==
    stream_start_produced => Len(simple_keys) = flow_level + 1

\* every token queued so far, in queue order: those handed out, then those
\* still in the queue
Queued == out \o tokens

\* the column passed to the roll_indent that queued the block start at
\* position i of seq: the column of the key when the token stands in front of
\* a Key, the column of the token otherwise
OpenedAt(seq, i) ==
    IF i < Len(seq) /\ seq[i + 1].tt = "Key" THEN seq[i + 1].mark.col ELSE seq[i].mark.col

\* the columns of the block containers opened and not yet closed in seq,
\* innermost last
RECURSIVE OpenColumns(_, _, _)
OpenColumns(seq, i, open) ==
    IF i > Len(seq) THEN open
    ELSE IF seq[i].tt \in BlockStarts
    THEN OpenColumns(seq, i + 1, Append(open, OpenedAt(seq, i)))
    ELSE IF seq[i].tt = "BlockEnd" /\ open # <<>>
    THEN OpenColumns(seq, i + 1, Front(open))
    ELSE OpenColumns(seq, i + 1, open)

\* C21: indents has one entry for each block container opened and not yet
\* closed (block-start tokens queued minus BlockEnd tokens queued), and
\* indent is the column passed to the roll_indent that opened the innermost
\* open container, or -1 exactly when no block container is open.
C21_IndentsMatchOpenBlocks ==
    LET starts == Cardinality({i \in 1..Len(Queued) : Queued[i].tt \in BlockStarts})
        ends == Cardinality({i \in 1..Len(Queued) : Queued[i].tt = "BlockEnd"})
        open == OpenColumns(Queued, 1, <<>>)
    IN  /\ Len(indents) = starts - ends
        /\ Len(open) = Len(indents)
        /\ indent = (IF open = <<>> THEN -1 ELSE Last(open))
        /\ (indent = -1) = (indents = <<>>)

C21_Witness ==
    /\ Len(indents) = 1
    /\ indent = 0
    /\ OpenColumns(Queued, 1, <<>>) = <<0>>
    /\ \E i, j, k \in 1..Len(Queued) :
            /\ i < j /\ j < k
            /\ Queued[i].tt = "BlockMappingStart"
            /\ Queued[j].tt = "BlockSequenceStart" /\ Queued[j].mark.col = 1
            /\ Queued[k].tt = "BlockEnd"

\* a simple key, at any flow level, that may still be turned into a Key in
\* front of the token of absolute index n
PossibleKeyAt(keys, n) ==
    \E i \in 1..Len(keys) : keys[i].possible /\ keys[i].token_number = n

\* the step hands out a token
HandsOut == Len(out') = Len(out) + 1

C22_Step ==
    HandsOut =>
        /\ tokens # <<>>
        /\ Last(out') = Head(tokens)
        /\ tokens' = Tail(tokens)
        /\ tokens_parsed' = tokens_parsed + 1
        /\ ~PossibleKeyAt(simple_keys', tokens_parsed)

\* C22: whenever a pull hands out a token, the queue was not empty, the
\* token is the head of the queue, and no simple key that is still possible,
\* at any flow level, has the absolute index of that token as its
\* token_number.
C22_HandedOutTokenIsSettled == [][C22_Step]_vars

C22_Witness ==
    /\ Len(out) >= 3
    /\ out[Len(out)].tt = "Key"
    /\ tokens # <<>>
    /\ Head(tokens).tt = "Scalar"
    /\ Head(tokens).mark = out[Len(out)].mark
    /\ first_error = <<>>

\* the turn of fetch_more_tokens that comes next fetches a token of the
\* stream: the pull is in its loop, needs more, and reaches the token
Fetching ==
    /\ pc \in {"iter", "direct"}
    /\ stream_start_produced
    /\ With(need_more_scan(Self), LAMBDA s0 :
            /\ ~Failed(s0)
            /\ need_more(s0)
            /\ ~Failed(to_next_token(lookahead(s0, 1))))

\* the scanner in front of the token that this turn fetches
AtToken == to_next_token(lookahead(need_more_scan(Self), 1))

\* the match of fetch_next_token is reached
AtMatch(d) ==
    /\ ~is_z(ch(d))
    /\ ~(d.mark.col = 0 /\ ch_is(d, "%"))
    /\ ~at_document_indicator(d)

\* the ':' in front of d is dispatched to fetch_value
ValueDispatched(d) ==
    /\ AtMatch(d)
    /\ ch(d) = ":"
    /\ dispatch(d) = fetch_value(d)

C23_Effect(d) ==
    LET sk == Last(d.simple_keys)
        pos == sk.token_number - d.tokens_parsed
        r == IF d.flow_level = 0 /\ sk.mark.col > d.indent THEN 1 ELSE 0
    IN  /\ pc' = pc
        /\ pos >= 0 /\ pos < Len(d.tokens)
        /\ Len(tokens') = Len(d.tokens) + 2 + r
        /\ SubSeq(tokens', 1, pos) = SubSeq(d.tokens, 1, pos)
        /\ r = 1 => tokens'[pos + 1].tt = "BlockMappingStart"
        /\ tokens'[pos + 1 + r] = Token(sk.mark, "Key")
        /\ SubSeq(tokens', pos + 2 + r, Len(tokens') - 1)
               = SubSeq(d.tokens, pos + 1, Len(d.tokens))
        /\ d.tokens[pos + 1].mark = sk.mark
        /\ Last(tokens') = Token(d.mark, "Value")
        /\ ~Last(simple_keys').possible
        /\ Len(simple_keys') = Len(d.simple_keys)
        /\ ~simple_key_allowed'

C23_Step ==
    (/\ Fetching
     /\ ValueDispatched(AtToken)
     /\ AtToken.simple_keys # <<>>
     /\ Last(AtToken.simple_keys).possible) => C23_Effect(AtToken)

\* C23: when a ':' is dispatched as a value indicator while the top simple
\* key is possible, a Key token with the key's start mark is inserted at
\* queue position token_number - tokens_parsed, right in front of the first
\* token of the key; in block context, when the key's column is greater than
\* indent, a BlockMappingStart stands right in front of that Key; the Value
\* token is appended behind them all; afterwards the top key is not possible
\* and simple_key_allowed is false.
C23_KeyInsertedBeforeValue == [][C23_Step]_vars

C23_Witness ==
    /\ Len(tokens) = 4
    /\ tokens[1].tt = "BlockMappingStart"
    /\ tokens[2].tt = "Key"
    /\ tokens[3].tt = "Scalar" /\ tokens[3].mark = tokens[2].mark
    /\ tokens[4].tt = "Value"
    /\ ~Last(simple_keys).possible
    /\ ~simple_key_allowed

KeysOf(seq) == {seq[i] : i \in KeyTokens(seq)}

C24_Step ==
    (Fetching /\ ValueDispatched(AtToken)) =>
        /\ \A i \in 1..Len(AtToken.simple_keys) :
               AtToken.simple_keys[i].possible =>
                   AtToken.simple_keys[i].mark.line = AtToken.mark.line
        /\ \A i \in 1..Len(simple_keys) :
               (simple_keys[i].possible /\ simple_keys[i].mark.line < AtToken.mark.line) =>
                   ~AtToken.simple_keys[i].possible
        /\ \A t \in KeysOf(tokens') \ KeysOf(AtToken.tokens) :
               t.mark.line = AtToken.mark.line

\* C24: a simple key fits on one line: when a ':' is dispatched as a value
\* indicator, stale_simple_keys has invalidated every candidate that started
\* on an earlier line, so the Key token that the ':' inserts, if any, has
\* the line of the ':'.
C24_KeyOnLineOfValue == [][C24_Step]_vars

C24_Witness ==
    /\ tokens # <<>>
    /\ Last(tokens).tt = "Value"
    /\ KeyTokens(Queued) = {}
    /\ \E i \in 1..Len(Queued) :
           /\ Queued[i].tt = "Scalar"
           /\ Queued[i].mark.line < Last(tokens).mark.line
    /\ \A i \in 1..Len(simple_keys) : ~simple_keys[i].possible
    /\ first_error = <<>>

\* the top simple key was saved in block context at the column of the
\* current indent, is still possible, and is stale when the next turn of
\* fetch_more_tokens calls stale_simple_keys
RequiredKeyGoesStale ==
    /\ pc \in {"iter", "direct"}
    /\ stream_start_produced
    /\ flow_level = 0
    /\ simple_keys # <<>>
    /\ Last(simple_keys).possible
    /\ Last(simple_keys).mark.col = indent
    /\ \/ tokens # <<>> /\ is_stale(Self, Last(simple_keys))
       \/ /\ With(need_more_scan(Self), LAMBDA s0 : ~Failed(s0) /\ need_more(s0))
          /\ With(skip_to_next_token(lookahead(Self, 1)), LAMBDA s1 :
                  ~Failed(s1) /\ is_stale(s1, Last(simple_keys)))

C25_Step == RequiredKeyGoesStale => StepFailsWith("simple key expected")

\* C25: a simple key saved in block context at the column of the current
\* indent is required: when it goes stale before a ':' has resolved it, the
\* fetch fails with the error "simple key expected".
C25_RequiredKeyInBlock == [][C25_Step]_vars

\* r differs from the scanner d in simple_keys and in the returned result only
OnlySimpleKeys(d, r) == [r EXCEPT !.simple_keys = d.simple_keys, !.ret = d.ret] = d

FailsWith(r, info) == ~r.panic /\ r.ret # <<>> /\ r.ret[1].info = info

\* what save_simple_key does to the scanner d
SaveEffect(d) ==
    LET r == save_simple_key(d)
        top == Last(d.simple_keys)
    IN  /\ OnlySimpleKeys(d, r)
        /\ IF ~d.simple_key_allowed
           THEN ~Failed(r) /\ r.simple_keys = d.simple_keys
           ELSE IF top.possible /\ top.required
           THEN FailsWith(r, "simple key expected") /\ r.simple_keys = d.simple_keys
           ELSE /\ ~Failed(r)
                /\ Len(r.simple_keys) = Len(d.simple_keys)
                /\ Front(r.simple_keys) = Front(d.simple_keys)
                /\ Last(r.simple_keys) =
                       [possible |-> TRUE,
                        required |-> (d.flow_level > 0 /\ d.indent = d.mark.col),
                        token_number |-> d.tokens_parsed + Len(d.tokens),
                        mark |-> d.mark]

\* what remove_simple_key does to the scanner d
RemoveEffect(d) ==
    LET r == remove_simple_key(d)
        top == Last(d.simple_keys)
    IN  /\ OnlySimpleKeys(d, r)
        /\ Failed(r) = (top.possible /\ top.required)
        /\ IF Failed(r)
           THEN FailsWith(r, "simple key expected") /\ r.simple_keys = d.simple_keys
           ELSE /\ Len(r.simple_keys) = Len(d.simple_keys)
                /\ Front(r.simple_keys) = Front(d.simple_keys)
                /\ Last(r.simple_keys) = [top EXCEPT !.possible = FALSE]

\* the characters whose handlers start with save_simple_key and change
\* simple_keys in no other way
SavingStarts == {"a", "&", "*", "!", "'", "\""}

C26_Step ==
    Fetching =>
        /\ SaveEffect(AtToken)
        /\ RemoveEffect(AtToken)
        /\ (AtMatch(AtToken) /\ ch(AtToken) \in SavingStarts) =>
               IF Failed(save_simple_key(AtToken))
               THEN StepFailsWith("simple key expected")
               ELSE simple_keys' = save_simple_key(AtToken).simple_keys
        /\ (AtMatch(AtToken) /\ ch(AtToken) = ",") =>
               IF Failed(remove_simple_key(AtToken))
               THEN StepFailsWith("simple key expected")
               ELSE simple_keys' = remove_simple_key(AtToken).simple_keys

\* C26: save_simple_key, when simple_key_allowed is true, replaces only the
\* top entry of simple_keys by {possible = true, required = (flow_level > 0
\* and indent = current column), token_number = tokens_parsed + queue
\* length, mark = current mark}, and fails instead if the old top was
\* possible and required; when simple_key_allowed is false it leaves
\* simple_keys unchanged.  remove_simple_key sets the top entry's possible
\* to false, and fails, leaving the entry unchanged, exactly when it was
\* both possible and required.
C26_SaveAndRemoveSimpleKey ==
    /\ []((stream_start_produced /\ simple_keys # <<>>) =>
              SaveEffect(Self) /\ RemoveEffect(Self))
    /\ [][C26_Step]_vars

C26_Witness ==
    /\ flow_level = 1
    /\ Last(simple_keys).possible
    /\ Last(simple_keys).required
    /\ Last(simple_keys).mark.col = indent
    /\ Last(simple_keys).token_number = tokens_parsed
    /\ tokens # <<>>
    /\ first_error # <<>>
    /\ first_error[1].info = "simple key expected"

\* the step of a turn that fetched a token without failing
Fetched == pc' = pc

\* the handler that the match of fetch_next_token calls at d
FlowStartDispatched(d) == AtMatch(d) /\ ch(d) \in {"[", "{"}

FlowEndDispatched(d) == AtMatch(d) /\ ch(d) \in {"]", "}"}

FlowEntryDispatched(d) == AtMatch(d) /\ ch(d) = ","

BlockEntryDispatched(d) == AtMatch(d) /\ ch(d) = "-" /\ is_blankz(d.buffer[2])

KeyDispatched(d) == AtMatch(d) /\ ch(d) = "?" /\ is_blankz(d.buffer[2])

DocumentStartDispatched(d) ==
    /\ ~is_z(ch(d))
    /\ ~(d.mark.col = 0 /\ ch_is(d, "%"))
    /\ at_document_indicator(d)
    /\ ch(d) = "-"

\* C27: simple_key_allowed is true right after the fetch of a BlockEntry,
\* Key, Value, DocumentStart or FlowEntry token and of a '[' or '{', in
\* block context as well as in flow context.
C27_Step ==
    (/\ Fetching
     /\ Fetched
     /\ \/ FlowStartDispatched(AtToken)
        \/ FlowEntryDispatched(AtToken)
        \/ BlockEntryDispatched(AtToken)
        \/ KeyDispatched(AtToken)
        \/ ValueDispatched(AtToken)
        \/ DocumentStartDispatched(AtToken)) => simple_key_allowed'

C27_AllowedAfterIndicators == [][C27_Step]_vars

\* C27, amended: simple_key_allowed is true right after the fetch of a
\* BlockEntry or FlowEntry token and of a '[' or '{'; after the fetch of an
\* explicit Key, and of a Value that does not resolve a simple key, it is
\* true in block context and false in flow context; after the fetch of a
\* Value that resolves a simple key, and of a DocumentStart, it is false.
C27_StepByContext ==
    (Fetching /\ Fetched) =>
        /\ (\/ FlowStartDispatched(AtToken)
            \/ FlowEntryDispatched(AtToken)
            \/ BlockEntryDispatched(AtToken)) => simple_key_allowed'
        /\ KeyDispatched(AtToken) => (simple_key_allowed' = (AtToken.flow_level = 0))
        /\ ValueDispatched(AtToken) =>
               (simple_key_allowed' =
                    (~Last(AtToken.simple_keys).possible /\ AtToken.flow_level = 0))
        /\ DocumentStartDispatched(AtToken) => ~simple_key_allowed'

C27_AllowedByContext == [][C27_StepByContext]_vars

C27_Witness ==
    /\ tokens # <<>>
    /\ Last(tokens).tt = "Key"
    /\ flow_level > 0
    /\ ~simple_key_allowed
    /\ Last(tokens).mark.index + 1 = mark.index
    /\ first_error = <<>>

\* the step queued one token behind those in front of the token fetched
QueuedOne(types) ==
    /\ Fetched
    /\ Len(tokens') = Len(AtToken.tokens) + 1
    /\ Last(tokens').tt \in types

\* the fetch consumed a line break
BreakConsumed == mark'.line > AtToken.mark.line

C28_Step ==
    (/\ Fetching
     /\ QueuedOne({"Scalar", "Tag", "Anchor", "Alias", "FlowSequenceEnd", "FlowMappingEnd"})
     /\ ~(BreakConsumed /\ AtToken.flow_level = 0)) => ~simple_key_allowed'

\* C28: simple_key_allowed is false right after the fetch of a scalar of any
\* style, of a tag, of an anchor or alias and of a ']' or '}', unless the
\* fetch consumed a line break in block context; a line break consumed at
\* the end of a plain scalar inside a flow collection does not allow simple
\* keys again.
C28_DisallowedAfterNodes == [][C28_Step]_vars

DocumentIndicatorDispatched(d) ==
    /\ ~is_z(ch(d))
    /\ ~(d.mark.col = 0 /\ ch_is(d, "%"))
    /\ at_document_indicator(d)

C29_Step ==
    (Fetching /\ DocumentIndicatorDispatched(AtToken) /\ Fetched) =>
        /\ indent' = -1
        /\ indents' = <<>>
        /\ Len(tokens') = Len(tokens) + Len(indents) + 1
        /\ SubSeq(tokens', 1, Len(tokens)) = tokens
        /\ \A i \in (Len(tokens) + 1)..(Len(tokens') - 1) : tokens'[i].tt = "BlockEnd"
        /\ Last(tokens').tt = (IF ch(AtToken) = "-" THEN "DocumentStart" ELSE "DocumentEnd")
        /\ ~Last(simple_keys').possible

\* C29: the fetch of a document indicator (`---` or `...` at column 0,
\* followed by a blank or the end of the line) unrolls the indent to -1,
\* whatever flow_level is: afterwards indent is -1 and indents is empty, one
\* BlockEnd for every block container that was open stands in front of the
\* DocumentStart or DocumentEnd token, and the top simple key is not
\* possible.
C29_DocumentIndicatorUnrolls == [][C29_Step]_vars

FlowEndOf(c) == IF c = "]" THEN "FlowSequenceEnd" ELSE "FlowMappingEnd"

\* C30: the fetch of a ']' or '}' invalidates the top simple key, decrements
\* flow_level by one, pops one simple-key slot, disables simple keys and
\* queues the flow-end token, in every state in which a ']' or '}' is
\* dispatched, flow_level = 0 included.
C30_Step ==
    (Fetching /\ FlowEndDispatched(AtToken)) =>
        /\ Fetched
        /\ flow_level' = AtToken.flow_level - 1
        /\ Len(simple_keys') = Len(AtToken.simple_keys) - 1
        /\ ~simple_key_allowed'
        /\ tokens' = Append(AtToken.tokens, Token(AtToken.mark, FlowEndOf(ch(AtToken))))

C30_FlowEndPopsLevel == [][C30_Step]_vars

\* C30, amended: the fetch of a ']' or '}' fails with "simple key expected",
\* changing neither flow_level nor simple_keys nor the queue, when the top
\* simple key is possible and required; otherwise it disables simple keys
\* and queues the flow-end token, and when flow_level > 0 it decrements
\* flow_level by one and pops the top simple-key slot, while at flow_level 0
\* it leaves flow_level at 0 and only sets the top slot's possible to false.
C30_StepByLevel ==
    (Fetching /\ FlowEndDispatched(AtToken)) =>
        LET top == Last(AtToken.simple_keys)
        IN  IF top.possible /\ top.required
            THEN /\ StepFailsWith("simple key expected")
                 /\ flow_level' = AtToken.flow_level
                 /\ simple_keys' = AtToken.simple_keys
                 /\ tokens' = AtToken.tokens
            ELSE /\ Fetched
                 /\ ~simple_key_allowed'
                 /\ tokens' = Append(AtToken.tokens,
                                     Token(AtToken.mark, FlowEndOf(ch(AtToken))))
                 /\ IF AtToken.flow_level > 0
                    THEN /\ flow_level' = AtToken.flow_level - 1
                         /\ simple_keys' = Front(AtToken.simple_keys)
                    ELSE /\ flow_level' = 0
                         /\ simple_keys' =
                                [AtToken.simple_keys EXCEPT
                                     ![Len(AtToken.simple_keys)].possible = FALSE]

C30_FlowEndByLevel == [][C30_StepByLevel]_vars

C30_Witness ==
    /\ tokens # <<>>
    /\ Last(tokens).tt \in FlowEnds
    /\ Count(Queued, FlowStarts) = 0
    /\ flow_level = 0
    /\ Len(simple_keys) = 1
    /\ ~Last(simple_keys).possible
    /\ ~simple_key_allowed

\* the ':' in front of d stands at the index right behind the closing quote
\* of the quoted scalar queued last
BehindClosingQuote(d) ==
    /\ d.mark.index >= 1
    /\ input[d.mark.index] \in {"'", "\""}
    /\ d.tokens # <<>>
    /\ Last(d.tokens).tt = "Scalar"
    /\ Last(d.tokens).style \in {"SingleQuoted", "DoubleQuoted"}

QueuesValue(d) == Fetched /\ tokens' # <<>> /\ Last(tokens') = Token(d.mark, "Value")

StartsPlainScalar(d) ==
    /\ ~QueuesValue(d)
    /\ Fetched =>
           /\ Len(tokens') = Len(d.tokens) + 1
           /\ Last(tokens').tt = "Scalar"
           /\ Last(tokens').style = "Plain"
           /\ Last(tokens').mark = d.mark
           /\ Last(tokens').s1 # <<>>
           /\ Head(Last(tokens').s1) = ":"

C31_Step ==
    (Fetching /\ AtMatch(AtToken) /\ ch(AtToken) = ":") =>
        /\ (AtToken.flow_level > 0 /\ BehindClosingQuote(AtToken)) => QueuesValue(AtToken)
        /\ (/\ AtToken.flow_level > 0
            /\ ~BehindClosingQuote(AtToken)
            /\ ~is_blankz(AtToken.buffer[2])
            /\ ~is_flow(AtToken.buffer[2])) => StartsPlainScalar(AtToken)
        /\ (AtToken.flow_level = 0 /\ ~is_blankz(AtToken.buffer[2])) =>
               StartsPlainScalar(AtToken)

\* C31: in flow context a ':' at the index right behind the closing quote of
\* a single- or double-quoted scalar is fetched as a Value, whatever follows
\* it; a ':' in flow context at another index, followed by a character that
\* is neither a blank, a line end nor a flow indicator, starts a plain
\* scalar; in block context a ':' followed by a character that is neither a
\* blank nor a line end starts a plain scalar, also right behind a quote.
C31_AdjacentValue == [][C31_Step]_vars

C31_Witness ==
    /\ flow_level > 0
    /\ Len(tokens) >= 3
    /\ Last(tokens).tt = "Value"
    /\ Last(tokens).mark.index = adjacent_value_allowed_at
    /\ tokens[Len(tokens) - 1].style = "SingleQuoted"
    /\ tokens[Len(tokens) - 2].tt = "Key"
    /\ Rest # <<>> /\ Head(Rest) = "b"

\* the number written by decimal digits
RECURSIVE DecimalNumber(_)
DecimalNumber(digits) ==
    IF digits = <<>> THEN 0
    ELSE DecimalNumber(Front(digits)) * 10 + HexValue(Last(digits))

VersionNumberError(digits) ==
    IF digits = <<>>
    THEN "while scanning a YAML directive, did not find expected version number"
    ELSE "while scanning a YAML directive, found extremely long version number"

VersionIsValid(c) ==
    /\ Len(c.major) >= 1 /\ Len(c.major) <= 9
    /\ c.sep = <<".">>
    /\ Len(c.minor) >= 1 /\ Len(c.minor) <= 9

\* the digits that stand where the first number is read: without a
\* separator the digits of both numbers are one number
FirstNumber(c) == IF c.sep = <<>> THEN c.major \o c.minor ELSE c.major

VersionError(c) ==
    IF ~(Len(FirstNumber(c)) >= 1 /\ Len(FirstNumber(c)) <= 9)
    THEN VersionNumberError(FirstNumber(c))
    ELSE IF c.sep # <<".">>
    THEN "while scanning a YAML directive, did not find expected digit or '.' character"
    ELSE VersionNumberError(c.minor)

VersionTokens(seq) == {i \in 1..Len(seq) : seq[i].tt = "VersionDirective"}

C32_State ==
    \A c \in VersionCases :
        input = VersionInput(c) =>
            IF VersionIsValid(c)
            THEN /\ ScansTo(<<Bare("StreamStart"), Bare("VersionDirective"),
                              Bare("StreamEnd")>>)
                 /\ \A i \in VersionTokens(Queued) :
                        /\ Queued[i].n1 = DecimalNumber(c.major)
                        /\ Queued[i].n2 = DecimalNumber(c.minor)
                        /\ Queued[i].n1 < 1000000000
                        /\ Queued[i].n2 < 1000000000
            ELSE first_error = <<>> =>
                     /\ pc # "panicked"
                     /\ \A i \in 1..Len(Queued) : Queued[i].tt = "StreamStart"
                     /\ (pc = "idle" /\ Len(out) >= 1) => result.kind = "Some"

C32_Step ==
    \A c \in VersionCases :
        (input = VersionInput(c) /\ ~VersionIsValid(c)
            /\ first_error = <<>> /\ first_error' # <<>>) =>
                /\ first_error'[1].info = VersionError(c)
                /\ VersionTokens(tokens') = {}
                /\ VersionTokens(out') = {}

\* C32: in a %YAML directive each of the two version numbers is 1 to 9
\* decimal digits and is returned as its exact decimal value, which is less
\* than 10^9 and so fits in 32 bits; no digit, a tenth digit, or no '.'
\* between the numbers is an error, and no VersionDirective token is queued.
C32_VersionNumbers == [](C32_State) /\ [][C32_Step]_vars

C32_Witness ==
    /\ stream_end_produced
    /\ Len(out) = 3
    /\ out[2].tt = "VersionDirective"
    /\ out[2].n1 = 999999999
    /\ out[2].n2 = 2

\* the values of the octets written by the escapes
OctetValues(octets) == [i \in 1..Len(octets) |-> HexNumber(octets[i])]

\* the number of octets of the UTF-8 encoding that starts with octet, 0 if
\* no encoding starts with it
Utf8Length(octet) ==
    IF octet < 128 THEN 1
    ELSE IF octet \div 32 = 6 THEN 2
    ELSE IF octet \div 16 = 14 THEN 3
    ELSE IF octet \div 8 = 30 THEN 4
    ELSE 0

IsContinuation(octet) == octet \div 64 = 2

\* the octets are one whole UTF-8 encoding
IsUtf8(v) ==
    /\ Utf8Length(v[1]) = Len(v)
    /\ \A i \in 2..Len(v) : IsContinuation(v[i])

\* the code point that the UTF-8 encoding v encodes
Utf8Decoded(v) ==
    IF Len(v) = 1 THEN v[1]
    ELSE IF Len(v) = 2 THEN (v[1] % 32) * 64 + (v[2] % 64)
    ELSE IF Len(v) = 3 THEN (v[1] % 16) * 4096 + (v[2] % 64) * 64 + (v[3] % 64)
    ELSE (v[1] % 8) * 262144 + (v[2] % 64) * 4096 + (v[3] % 64) * 64 + (v[4] % 64)

Utf8CodePoint(v) == [hi |-> Utf8Decoded(v) \div 65536, lo |-> Utf8Decoded(v) % 65536]

Utf8Error(v) ==
    IF Utf8Length(v[1]) = 0
    THEN "while parsing a tag, found an incorrect leading UTF-8 octet"
    ELSE "while parsing a tag, found an incorrect trailing UTF-8 octet"

TagTokens(seq) == {i \in 1..Len(seq) : seq[i].tt = "Tag"}

C33_State ==
    \A octets \in UriOctets :
        input = UriInput(octets) =>
            IF IsUtf8(OctetValues(octets))
            THEN /\ ScansTo(<<Bare("StreamStart"), <<"Tag", "", <<"!">>>>,
                              Bare("StreamEnd")>>)
                 /\ \A i \in TagTokens(Queued) :
                        Queued[i].s2 = <<char_of(Utf8CodePoint(OctetValues(octets)))>>
            ELSE first_error = <<>> =>
                     /\ pc # "panicked"
                     /\ \A i \in 1..Len(Queued) : Queued[i].tt = "StreamStart"
                     /\ (pc = "idle" /\ Len(out) >= 1) => result.kind = "Some"

C33_Step ==
    \A octets \in UriOctets :
        (input = UriInput(octets) /\ ~IsUtf8(OctetValues(octets))
            /\ first_error = <<>> /\ first_error' # <<>>) =>
                /\ first_error'[1].info = Utf8Error(OctetValues(octets))
                /\ TagTokens(tokens') = {}
                /\ TagTokens(out') = {}

\* C33: in a tag URI a run of %HH escapes that is the UTF-8 encoding, of 1 to
\* 4 octets, of a code point c is decoded to the one character c; a leading
\* octet that starts no encoding, or a trailing octet that is not of the form
\* 10xxxxxx, is an error and no Tag token is queued.
C33_UriEscapesDecodeUtf8 == [](C33_State) /\ [][C33_Step]_vars

\* the positions of gap where a line break ends: CR LF is one line break
BreakEnds(gap) ==
    {i \in 1..Len(gap) :
        \/ gap[i] = "\n"
        \/ gap[i] = "\r" /\ (i = Len(gap) \/ gap[i + 1] # "\n")}

\* what the line breaks of a gap contribute to the value of a plain scalar
FoldedBreaks(gap) ==
    IF Cardinality(BreakEnds(gap)) = 1 THEN <<" ">>
    ELSE Newlines(Cardinality(BreakEnds(gap)) - 1)

\* C34 as stated: inside a plain scalar a run of spaces and tabs between two
\* words of one line contributes exactly one space, one line break
\* contributes one space and k >= 2 line breaks contribute k - 1 newlines.
C34_BlanksCollapsed ==
    \A gap \in PlainGaps :
        input = PlainInput(gap) =>
            ScansTo(<<Bare("StreamStart"),
                      PlainScalar(<<"a">>
                                  \o (IF BreakEnds(gap) = {} THEN <<" ">>
                                      ELSE FoldedBreaks(gap))
                                  \o <<"b", "c">>),
                      Bare("StreamEnd")>>)

\* C34: inside a plain scalar a run of spaces and tabs between two words of
\* one line contributes the run itself, unchanged; a gap with one line break
\* contributes one space and a gap with k >= 2 line breaks contributes k - 1
\* newlines, and the spaces and tabs around the line breaks contribute
\* nothing.
C34_BlanksKeptBreaksFolded ==
    \A gap \in PlainGaps :
        input = PlainInput(gap) =>
            ScansTo(<<Bare("StreamStart"),
                      PlainScalar(<<"a">>
                                  \o (IF BreakEnds(gap) = {} THEN gap
                                      ELSE FoldedBreaks(gap))
                                  \o <<"b", "c">>),
                      Bare("StreamEnd")>>)

C34_Witness ==
    /\ input = PlainInput(<<" ", "\t", " ">>)
    /\ stream_end_produced
    /\ Len(out) = 3
    /\ out[2].tt = "Scalar"
    /\ out[2].s1 = <<"a", " ", "\t", " ", "b", "c">>

\* what stands in the value of a block scalar between the content lines x
\* and y that have b empty lines between them
Joint(style, x, y, b) ==
    IF style = ">" /\ ~is_blank(x[1]) /\ ~is_blank(y[1])
    THEN IF b = 0 THEN <<" ">> ELSE Newlines(b)
    ELSE Newlines(b + 1)

\* the value of the block scalar up to the end of its last content line
BlockContent(c) ==
    Concat([i \in 1..Len(c.body.lines) |->
               c.body.lines[i]
                   \o (IF i < Len(c.body.lines)
                       THEN Joint(c.style, c.body.lines[i], c.body.lines[i + 1],
                                  c.body.blanks[i])
                       ELSE <<>>)])

\* the line breaks that the chomping indicator keeps at the end of the value
BlockTail(c) ==
    IF c.tail < 0 \/ c.chomp = <<"-">> THEN <<>>
    ELSE IF c.chomp = <<>> THEN <<"\n">>
    ELSE Newlines(1 + c.tail)

BlockStyle(c) == IF c.style = "|" THEN "Literal" ELSE "Foled"

\* C35: the value of a block scalar is its content, which does not depend on
\* the chomping indicator, followed by the trailing line breaks that the
\* indicator keeps: none with '-', the one break that ends the last content
\* line without indicator, that break and one per following empty line with
\* '+'.  In the content a literal scalar has one newline per line break and a
\* folded scalar has one space for a single break between two lines that do
\* not start with a blank, and the newlines of the empty lines otherwise.
C35_BlockScalarChomping ==
    \A c \in {b \in BlockCases : input # <<>> /\ b.style = input[1]} :
        input = BlockInput(c) =>
            ScansTo(<<Bare("StreamStart"),
                      <<"Scalar", BlockStyle(c), BlockContent(c) \o BlockTail(c)>>,
                      Bare("StreamEnd")>>)

C35_Witness ==
    /\ input = <<">", "\n", " ", " ", "h", "e", "l", "l", "o", "\n",
                 " ", " ", "w", "o", "r", "l", "d", "\n">>
    /\ stream_end_produced
    /\ Len(out) = 3
    /\ out[2].style = "Foled"
    /\ out[2].s1 = <<"h", "e", "l", "l", "o", " ", "w", "o", "r", "l", "d", "\n">>

LiteralTokens(seq) == {i \in 1..Len(seq) : seq[i].tt = "Scalar" /\ seq[i].style = "Literal"}

\* the indent of the block that encloses the block scalar of the case
EnclosingIndent(c) == IF c.prefix = <<>> THEN -1 ELSE 0

\* the content indent that an indentation digit asks for
DigitIndent(c) ==
    IF EnclosingIndent(c) >= 0 THEN EnclosingIndent(c) + HexValue(c.digit[1])
    ELSE HexValue(c.digit[1])

\* the content indent of a header without digit: the column of the first
\* non-empty content line, but at least the length of every line of spaces
\* in front of it, more than the enclosing indent, and at least 1
DetectedIndent(c) ==
    Max(Max(Max(c.col, IF c.blanks = <<>> THEN 0 ELSE c.blanks[1]),
            EnclosingIndent(c) + 1), 1)

\* the value v of the block scalar is what a content indent of n gives: the
\* content line, from column n on, ends the value, and a content line in
\* front of column n is no part of it
ContentFrom(v, c, n) ==
    IF c.col >= n
    THEN /\ Len(v) >= c.col - n + 2
         /\ SubSeq(v, Len(v) - (c.col - n) - 1, Len(v)) = Spaces(c.col - n) \o <<"a", "\n">>
         /\ Len(v) > c.col - n + 2 => v[Len(v) - (c.col - n) - 2] = "\n"
    ELSE \A i \in 1..Len(v) : v[i] # "a"

IndentCasesOf(chars) ==
    {c \in BlockIndentCases :
        /\ Len(chars) >= 4
        /\ SubSeq(chars, 1, Len(c.prefix) + 1) = c.prefix \o <<"|">>
        /\ chars = BlockIndentInput(c)}

C36_ScalarOf(c, n) ==
    /\ first_error = <<>>
    /\ pc # "panicked"
    /\ \A i \in LiteralTokens(Queued) : ContentFrom(Queued[i].s1, c, n)
    /\ stream_end_produced => Cardinality(LiteralTokens(out)) = 1

C36_ZeroState ==
    first_error = <<>> =>
        /\ pc # "panicked"
        /\ LiteralTokens(Queued) = {}
        /\ ~stream_end_produced
        /\ (pc = "idle" /\ Len(out) >= 1) => result.kind = "Some"

C36_ZeroStep ==
    \A c \in IndentCasesOf(input) :
        (c.digit = <<"0">> /\ first_error = <<>> /\ first_error' # <<>>) =>
            /\ first_error'[1].info =
                   "while scanning a block scalar, found an indentation indicator equal to 0"
            /\ LiteralTokens(tokens') = {}
            /\ LiteralTokens(out') = {}

\* C36 as stated: without an indentation digit the content indent is the
\* column of the first non-empty content line, also when that column is 0 at
\* top level and when an earlier line of spaces is longer than that column;
\* with a digit d in 1..9 it is the enclosing indent plus d, or d when no
\* block is open; the digit 0 is an error.
C36_IndentIsContentColumn ==
    /\ [](\A c \in IndentCasesOf(input) :
              IF c.digit = <<>> THEN C36_ScalarOf(c, c.col)
              ELSE IF c.digit = <<"0">> THEN C36_ZeroState
              ELSE C36_ScalarOf(c, DigitIndent(c)))
    /\ [][C36_ZeroStep]_vars

C36_State ==
    \A c \in IndentCasesOf(input) :
        IF c.digit = <<>> THEN C36_ScalarOf(c, DetectedIndent(c))
        ELSE IF c.digit = <<"0">> THEN C36_ZeroState
        ELSE C36_ScalarOf(c, DigitIndent(c))

\* C36: without an indentation digit the content indent of a block scalar
\* is the largest of the column of the first non-empty content line, the
\* length of every earlier line of spaces, the enclosing indent plus 1, and
\* 1, and a content line in front of that indent is no part of the scalar;
\* with a digit d in 1..9 the content indent is the enclosing indent plus d,
\* or d when no block is open; the digit 0 is an error and no block scalar
\* is queued.
C36_IndentIsDetectedMaximum == [](C36_State) /\ [][C36_ZeroStep]_vars

C36_Witness ==
    /\ input = <<"|", "\n", " ", " ", " ", "\n", " ", "a", "\n">>
    /\ stream_end_produced
    /\ Len(out) = 4
    /\ out[2].style = "Literal"
    /\ out[2].s1 = <<>>
    /\ out[3].style = "Plain"
    /\ out[3].s1 = <<"a">>

\* the turn of fetch_more_tokens that the pull makes next
Turn == fetch_more_tokens_turn(Self)

EscapeErrors ==
    {"while parsing a quoted scalar, did not find expected hexadecimal number",
     "while parsing a quoted scalar, found invalid Unicode character escape code"}

\* the token that the turn fetches is a double-quoted scalar and a \u or \U
\* escape is ahead
LongEscapeAhead ==
    /\ Fetching
    /\ ch(AtToken) = "\""
    /\ \E i \in 1..(Len(Rest) - 1) : Rest[i] = "\\" /\ Rest[i + 1] \in {"u", "U"}

\* the buffer is made of characters of the input, in their order, followed
\* by NULs once the input is used up
BufferIsInputThenNul ==
    /\ \A i \in 1..Len(buffer) :
           buffer[i] = NUL => rdr = <<>> /\ \A j \in i..Len(buffer) : buffer[j] = NUL
    /\ \E k \in 0..Len(buffer) :
           /\ \A i \in 1..Len(buffer) : buffer[i] = NUL <=> i > k
           /\ mark.index + k + Len(rdr) = Len(input)
           /\ SubSeq(buffer, 1, k) \o rdr = SubSeq(input, mark.index + 1, Len(input))

C37_Common ==
    /\ Len(buffer) <= 8
    /\ pc \in {"iter", "direct"} =>
           /\ Turn.peak <= 8
           /\ Turn.peak > 4 => (Len(buffer) > 4 \/ LongEscapeAhead)
    /\ \A n \in 0..8 :
           /\ Len(lookahead(Self, n).buffer) >= n
           /\ Len(lookahead(Self, n).buffer) <= (IF n > Len(buffer) THEN n ELSE Len(buffer))
    /\ BufferIsInputThenNul

\* C37 as stated: the buffer never holds more than 8 characters, and more
\* than 4 only while an escape sequence is scanned, so at most 4 when no
\* pull is running; lookahead(n) leaves at least n characters buffered; the
\* characters buffered after the end of the input are NUL.
C37_FourOutsideEscapes ==
    /\ C37_Common
    /\ pc = "idle" => Len(buffer) <= 4

\* C37: the buffer never holds more than 8 characters; it holds more than 4
\* only from the lookahead of the digits of a \u or \U escape on, until they
\* are skipped, and when the escape is not valid the scan fails and leaves
\* them in the buffer; lookahead(n) leaves at least n characters buffered;
\* the characters buffered after the end of the input are NUL.
C37_BufferBounded ==
    /\ C37_Common
    /\ Len(buffer) > 4 => (first_error # <<>> /\ first_error[1].info \in EscapeErrors)

C37_Witness ==
    /\ pc \in {"iter", "direct"}
    /\ first_error = <<>>
    /\ LongEscapeAhead
    /\ Turn.peak = 8
    /\ Len(Turn.buffer) = 8
    /\ Failed(Turn)

PossibleKeys == {i \in 1..Len(simple_keys) : simple_keys[i].possible}

\* the position at which fetch_value and roll_indent insert for the key sk
\* of the scanner d
KeyPosition(d, sk) == sk.token_number - d.tokens_parsed

\* the ':' that the next turn fetches ends a simple key that is possible
ValueEndsSimpleKey ==
    /\ Fetching
    /\ ValueDispatched(AtToken)
    /\ Last(AtToken.simple_keys).possible

\* C38: every simple key with possible = true has tokens_parsed <=
\* token_number <= tokens_parsed + the length of the queue; the position
\* token_number - tokens_parsed that fetch_value and roll_indent compute is
\* not negative and not behind the end of the queue, and no pull panics.
C38_KeyPositionsInQueue ==
    /\ \A i \in PossibleKeys :
           /\ tokens_parsed <= simple_keys[i].token_number
           /\ simple_keys[i].token_number <= tokens_parsed + Len(tokens)
    /\ ValueEndsSimpleKey =>
           /\ KeyPosition(AtToken, Last(AtToken.simple_keys)) >= 0
           /\ KeyPosition(AtToken, Last(AtToken.simple_keys)) <= Len(AtToken.tokens)
           /\ ~fetch_value(AtToken).panic
    /\ pc # "panicked"
    /\ result.kind # "Panic"

C38_Witness ==
    /\ ValueEndsSimpleKey
    /\ KeyPosition(AtToken, Last(AtToken.simple_keys)) >= 1
    /\ AtToken.tokens_parsed >= 1
    /\ Len(fetch_value(AtToken).tokens) = Len(AtToken.tokens) + 2

\* the next turn fetches a token in front of which unroll_indent pops
UnrollPops ==
    /\ Fetching
    /\ Len(AtToken.indents) < Len(indents)

\* C39: indent >= -1; the stack indents is strictly increasing from bottom
\* to top and its bottom element is -1; indent is greater than every element
\* of indents; so indents is empty exactly when indent = -1, and the pop of
\* unroll_indent never finds the stack empty.
C39_IndentStackOrdered ==
    /\ indent >= -1
    /\ \A i \in 1..Len(indents) :
           /\ i = 1 => indents[i] = -1
           /\ i > 1 => indents[i - 1] < indents[i]
           /\ indents[i] < indent
    /\ indents = <<>> <=> indent = -1
    /\ pc \in {"iter", "direct"} => ~Turn.panic
    /\ pc # "panicked"
    /\ result.kind # "Panic"

C39_Witness ==
    /\ Len(indents) = 2
    /\ indents[1] < indents[2]
    /\ indents[2] < indent
    /\ UnrollPops
    /\ Len(AtToken.indents) = 1
    /\ AtToken.indent = indents[2]

====
